---------------------------- MODULE Spec2Model ----------------------------
(***************************************************************************)
(* A model of the Redis-like server of this repository:                    *)
(*   - the RESP codec of src/src/resp.rs (serialize, deserialize_object    *)
(*     and the ReadState buffer),                                          *)
(*   - the command engine of src/src/engine.rs (Engine::do_command and     *)
(*     the store of entries),                                              *)
(*   - the request router of src/src/main.rs (connection handlers, the     *)
(*     shared request channel, the engine thread).                         *)
(* Bytes are their ASCII codes; byte strings are sequences of codes.       *)
(***************************************************************************)
EXTENDS Integers, Sequences, FiniteSets, TLC

VARIABLES
    \* ---- router (main.rs) ----
    connection_id,  \* main's counter of accepted connections
    handlers,       \* id -> the state of that connection's handler thread
    rx_req,         \* the shared request channel (FIFO of Request)
    rx_res,         \* id -> the connection's reply channel (FIFO of Response)
    senders,        \* run_engine's map: id -> reply sink
    \* ---- engine (engine.rs) ----
    data,           \* Engine.data: key Object -> Entry
    now,            \* the monotonic clock read by time::Instant::now(), in nanoseconds
    \* ---- history of the run (what was submitted, applied, replied) ----
    n_sent,         \* how many Requests were ever sent on the request channel
    applied,        \* per connection, the replies run_engine computed for its commands
    taken,          \* id -> the responses its handler took from rx_res
    last_cmd,       \* the command Object of the latest do_command call
    last_reply,     \* the Object that call returned
    writes,         \* key -> the latest write command aimed at it, and when
    \* ---- codec harness (resp.rs) ----
    phase,          \* position of the codec run
    objs,           \* the Objects to serialize
    cuts,           \* where the byte source splits its reads
    wire,           \* the bytes serialize wrote
    io,             \* the ReadState and the byte source it reads
    decoded,        \* the results of the deserialize_object calls so far
    sink            \* the bytes written by serializing the decoded Objects

router_vars == <<connection_id, handlers, rx_req, rx_res, senders, n_sent, applied, taken>>
engine_vars == <<data, now, last_cmd, last_reply, writes>>
codec_vars == <<phase, objs, cuts, wire, io, decoded, sink>>
vars == <<router_vars, engine_vars, codec_vars>>

---------------------------------------------------------------------------
(* Bytes *)

Dollar == 36
Star == 42
Colon == 58
Plus == 43
Minus == 45
CR == 13
LF == 10
Ch0 == 48
Ch9 == 57
ChLowerA == 97
ChLowerZ == 122
CaseShift == 32

\* "\r\n"
CRLF ==
    <<CR, LF>>

\* Option::None for a byte
NoByte ==
    0 - 1

---------------------------------------------------------------------------
(* engine::Object *)

Array(items) ==
    [tag |-> "Array", some |-> TRUE, bytes |-> <<>>, int |-> 0, items |-> items]

BulkString(bytes) ==
    [tag |-> "BulkString", some |-> TRUE, bytes |-> bytes, int |-> 0, items |-> <<>>]

\* BulkString(None)
NullBulk ==
    [tag |-> "BulkString", some |-> FALSE, bytes |-> <<>>, int |-> 0, items |-> <<>>]

Error(message) ==
    [tag |-> "Error", some |-> TRUE, bytes |-> message, int |-> 0, items |-> <<>>]

Integer(i) ==
    [tag |-> "Integer", some |-> TRUE, bytes |-> <<>>, int |-> i, items |-> <<>>]

SimpleString(string) ==
    [tag |-> "SimpleString", some |-> TRUE, bytes |-> string, int |-> 0, items |-> <<>>]

\* Object::new_empty_array
new_empty_array ==
    Array(<<>>)

\* the absence of an Object (a failed Result, Option::None)
NoObject ==
    [tag |-> "None", some |-> FALSE, bytes |-> <<>>, int |-> 0, items |-> <<>>]

IsArray(o) ==
    o.tag = "Array"

\* matches Object::BulkString(Some(_))
IsSomeBulk(o) ==
    o.tag = "BulkString" /\ o.some

IsError(o) ==
    o.tag = "Error"

---------------------------------------------------------------------------
(* resp.rs: serialize *)

RECURSIVE DecDigits(_)
\* the decimal digits of n >= 0, as `{}` formats them
DecDigits(n) ==
    IF n < 10 THEN <<Ch0 + n>>
    ELSE Append(DecDigits(n \div 10), Ch0 + (n % 10))

\* `{i}` of a signed integer, as write_fmt hands it to the stream: the sign
\* and the digits are pieces of their own, each written with write_all
FormatInt(i) ==
    IF i < 0 THEN <<[all |-> TRUE, bytes |-> <<Minus>>],
                    [all |-> TRUE, bytes |-> DecDigits(0 - i)]>>
    ELSE <<[all |-> TRUE, bytes |-> DecDigits(i)]>>

RECURSIVE serialize(_)
RECURSIVE serialize_items(_)
serialize_items(items) ==
    IF items = <<>> THEN <<>>
    ELSE serialize(Head(items)) \o serialize_items(Tail(items))

\* serialize(stream, object): the buffers it hands to the stream, in order.
\* write!(stream, ..) is write_fmt, which hands over each piece of the
\* format (the text before an argument, the argument, the text after it)
\* with a write_all of its own. stream.write(&string)? is one write(),
\* which may take only a part of the buffer, and serialize drops its count.
\* The Err of a call ends serialize (`?`), the calls after it are not made.
\* A call is [all, bytes]: with `all` the buffer is written with write_all
\* (write() after write() until it is taken whole, or the call fails).
serialize(object) ==
    LET WriteAll(bytes) == [all |-> TRUE, bytes |-> bytes] IN
    CASE object.tag = "Array" ->
           <<WriteAll(<<Star>>), WriteAll(DecDigits(Len(object.items))), WriteAll(CRLF)>>
           \o serialize_items(object.items)
      [] object.tag = "Integer" ->
           <<WriteAll(<<Colon>>)>> \o FormatInt(object.int) \o <<WriteAll(CRLF)>>
      [] object.tag = "BulkString" /\ object.some ->
           <<WriteAll(<<Dollar>>), WriteAll(DecDigits(Len(object.bytes))), WriteAll(CRLF),
             [all |-> FALSE, bytes |-> object.bytes],
             WriteAll(CRLF)>>
      [] object.tag = "BulkString" /\ ~object.some ->
           <<WriteAll(<<Dollar, Minus, Ch0 + 1>> \o CRLF)>>
      [] object.tag = "Error" ->
           <<WriteAll(<<Minus>>),
             [all |-> FALSE, bytes |-> object.bytes],
             WriteAll(CRLF)>>
      [] object.tag = "SimpleString" ->
           <<WriteAll(<<Plus>>),
             [all |-> FALSE, bytes |-> object.bytes],
             WriteAll(CRLF)>>

RECURSIVE WrittenInFull(_)
\* what the calls leave on a stream that takes every byte of every buffer
\* (a Vec<u8>, a socket with room): the buffers one after the other
WrittenInFull(calls) ==
    IF calls = <<>> THEN <<>>
    ELSE Head(calls).bytes \o WrittenInFull(Tail(calls))

\* one write(bytes) on a stream that takes at most `per` bytes in one write
\* and `room` bytes in all, after which its writes return Err (a stream
\* that is not limited takes every byte): Ok(n) or Err, and the stream
\* after it
StreamWrite(stream, bytes) ==
    LET len == Len(bytes)
        most == IF stream.per < stream.room THEN stream.per ELSE stream.room
        n == IF ~stream.limited \/ len <= most THEN len ELSE most
    IN [ok |-> ~stream.limited \/ stream.room > 0,
        n |-> n,
        stream |-> [stream EXCEPT !.room = IF stream.limited THEN @ - n ELSE @]]

\* b"expected an non-empty array"  (engine.rs:140)
MsgExpectedArray ==
    <<101, 120, 112, 101, 99, 116, 101, 100, 32, 97, 110, 32, 110, 111, 110, 45, 101, 109, 112, 116, 121, 32, 97, 114, 114, 97, 121>>
\* b"expected first element to be a non-null bulk string"  (engine.rs:150)
MsgExpectedName ==
    <<101, 120, 112, 101, 99, 116, 101, 100, 32, 102, 105, 114, 115, 116, 32, 101, 108, 101, 109, 101, 110, 116, 32, 116, 111, 32, 98, 101, 32, 97, 32, 110, 111, 110, 45, 110, 117, 108, 108, 32, 98, 117, 108, 107, 32, 115, 116, 114, 105, 110, 103>>
\* b"GET"  (engine.rs:156)
B_GET ==
    <<71, 69, 84>>
\* b"PING"  (engine.rs:157)
B_PING ==
    <<80, 73, 78, 71>>
\* b"PONG"  (engine.rs:157)
B_PONG ==
    <<80, 79, 78, 71>>
\* b"ECHO"  (engine.rs:158)
B_ECHO ==
    <<69, 67, 72, 79>>
\* b"RPUSH"  (engine.rs:159)
B_RPUSH ==
    <<82, 80, 85, 83, 72>>
\* b"LPUSH"  (engine.rs:160)
B_LPUSH ==
    <<76, 80, 85, 83, 72>>
\* b"SET"  (engine.rs:161)
B_SET ==
    <<83, 69, 84>>
\* b"LRANGE"  (engine.rs:162)
B_LRANGE ==
    <<76, 82, 65, 78, 71, 69>>
\* b"LLEN"  (engine.rs:163)
B_LLEN ==
    <<76, 76, 69, 78>>
\* b"LPOP"  (engine.rs:164)
B_LPOP ==
    <<76, 80, 79, 80>>
\* b"unknown command"  (engine.rs:165)
MsgUnknownCommand ==
    <<117, 110, 107, 110, 111, 119, 110, 32, 99, 111, 109, 109, 97, 110, 100>>
\* b"LLEN requires a key argument"  (engine.rs:171)
MsgLlenKey ==
    <<76, 76, 69, 78, 32, 114, 101, 113, 117, 105, 114, 101, 115, 32, 97, 32, 107, 101, 121, 32, 97, 114, 103, 117, 109, 101, 110, 116>>
\* b"LRANGE requires a key argument"  (engine.rs:211)
MsgLrangeKey ==
    <<76, 82, 65, 78, 71, 69, 32, 114, 101, 113, 117, 105, 114, 101, 115, 32, 97, 32, 107, 101, 121, 32, 97, 114, 103, 117, 109, 101, 110, 116>>
\* b"LRANGE requires a start index"  (engine.rs:215)
MsgLrangeStart ==
    <<76, 82, 65, 78, 71, 69, 32, 114, 101, 113, 117, 105, 114, 101, 115, 32, 97, 32, 115, 116, 97, 114, 116, 32, 105, 110, 100, 101, 120>>
\* b"LRANGE requires a stop index"  (engine.rs:219)
MsgLrangeStop ==
    <<76, 82, 65, 78, 71, 69, 32, 114, 101, 113, 117, 105, 114, 101, 115, 32, 97, 32, 115, 116, 111, 112, 32, 105, 110, 100, 101, 120>>
\* b"couldn't parse start as an integer"  (engine.rs:223)
MsgParseStart ==
    <<99, 111, 117, 108, 100, 110, 39, 116, 32, 112, 97, 114, 115, 101, 32, 115, 116, 97, 114, 116, 32, 97, 115, 32, 97, 110, 32, 105, 110, 116, 101, 103, 101, 114>>
\* b"couldn't parse stop as an integer"  (engine.rs:227)
MsgParseStop ==
    <<99, 111, 117, 108, 100, 110, 39, 116, 32, 112, 97, 114, 115, 101, 32, 115, 116, 111, 112, 32, 97, 115, 32, 97, 110, 32, 105, 110, 116, 101, 103, 101, 114>>
\* b"RPUSH requires a key argument"  (engine.rs:251)
MsgRpushKey ==
    <<82, 80, 85, 83, 72, 32, 114, 101, 113, 117, 105, 114, 101, 115, 32, 97, 32, 107, 101, 121, 32, 97, 114, 103, 117, 109, 101, 110, 116>>
\* b"RPUSH requires an element argument"  (engine.rs:255)
MsgRpushElement ==
    <<82, 80, 85, 83, 72, 32, 114, 101, 113, 117, 105, 114, 101, 115, 32, 97, 110, 32, 101, 108, 101, 109, 101, 110, 116, 32, 97, 114, 103, 117, 109, 101, 110, 116>>
\* b"object at key is not an array"  (engine.rs:264)
MsgNotAnArray ==
    <<111, 98, 106, 101, 99, 116, 32, 97, 116, 32, 107, 101, 121, 32, 105, 115, 32, 110, 111, 116, 32, 97, 110, 32, 97, 114, 114, 97, 121>>
\* b"LPUSH requires a key argument"  (engine.rs:276)
MsgLpushKey ==
    <<76, 80, 85, 83, 72, 32, 114, 101, 113, 117, 105, 114, 101, 115, 32, 97, 32, 107, 101, 121, 32, 97, 114, 103, 117, 109, 101, 110, 116>>
\* b"LPUSH requires an element argument"  (engine.rs:280)
MsgLpushElement ==
    <<76, 80, 85, 83, 72, 32, 114, 101, 113, 117, 105, 114, 101, 115, 32, 97, 110, 32, 101, 108, 101, 109, 101, 110, 116, 32, 97, 114, 103, 117, 109, 101, 110, 116>>
\* b"ECHO requires an argument"  (engine.rs:302)
MsgEchoArg ==
    <<69, 67, 72, 79, 32, 114, 101, 113, 117, 105, 114, 101, 115, 32, 97, 110, 32, 97, 114, 103, 117, 109, 101, 110, 116>>
\* b"ECHO requires exactly one argument"  (engine.rs:306)
MsgEchoOne ==
    <<69, 67, 72, 79, 32, 114, 101, 113, 117, 105, 114, 101, 115, 32, 101, 120, 97, 99, 116, 108, 121, 32, 111, 110, 101, 32, 97, 114, 103, 117, 109, 101, 110, 116>>
\* b"SET requires a key argument"  (engine.rs:315)
MsgSetKey ==
    <<83, 69, 84, 32, 114, 101, 113, 117, 105, 114, 101, 115, 32, 97, 32, 107, 101, 121, 32, 97, 114, 103, 117, 109, 101, 110, 116>>
\* b"SET requires a value argument"  (engine.rs:319)
MsgSetValue ==
    <<83, 69, 84, 32, 114, 101, 113, 117, 105, 114, 101, 115, 32, 97, 32, 118, 97, 108, 117, 101, 32, 97, 114, 103, 117, 109, 101, 110, 116>>
\* b"PX"  (engine.rs:328)
B_PX ==
    <<80, 88>>
\* b"Invalid PX duration"  (engine.rs:338)
MsgInvalidPx ==
    <<73, 110, 118, 97, 108, 105, 100, 32, 80, 88, 32, 100, 117, 114, 97, 116, 105, 111, 110>>
\* b"PX requires a duration"  (engine.rs:343)
MsgPxDuration ==
    <<80, 88, 32, 114, 101, 113, 117, 105, 114, 101, 115, 32, 97, 32, 100, 117, 114, 97, 116, 105, 111, 110>>
\* b"OK"  (engine.rs:357)
B_OK ==
    <<79, 75>>
\* b"GET requires a key argument"  (engine.rs:363)
MsgGetKey ==
    <<71, 69, 84, 32, 114, 101, 113, 117, 105, 114, 101, 115, 32, 97, 32, 107, 101, 121, 32, 97, 114, 103, 117, 109, 101, 110, 116>>
\* b"GET requires exactly one argument"  (engine.rs:367)
MsgGetOne ==
    <<71, 69, 84, 32, 114, 101, 113, 117, 105, 114, 101, 115, 32, 101, 120, 97, 99, 116, 108, 121, 32, 111, 110, 101, 32, 97, 114, 103, 117, 109, 101, 110, 116>>
---------------------------------------------------------------------------
(* resp.rs: ReadState and the byte source *)

\* [u8; 1024]
BufferSize == 1024

\* ReadState::new
NewReadState ==
    [buffer |-> <<>>, length |-> 0, offset |-> 0, can_read_more |-> TRUE]

\* A byte source: the chunks its successive reads return, then end-of-stream
\* (a read of zero bytes) or, with fail, an I/O error.
Stream(chunks, fail) ==
    [chunks |-> chunks, fail |-> fail]

NewIo(chunks, fail) ==
    [state |-> NewReadState, stream |-> Stream(chunks, fail)]

\* ReadState::advance
advance(x) ==
    [x EXCEPT !.state.offset = @ + 1]

\* stream.read(&mut self.buffer): at most BufferSize bytes of the next chunk
StreamRead(stream) ==
    IF stream.chunks = <<>>
    THEN [err |-> stream.fail, bytes |-> <<>>, stream |-> stream]
    ELSE IF Len(Head(stream.chunks)) <= BufferSize
    THEN [err |-> FALSE, bytes |-> Head(stream.chunks),
          stream |-> [stream EXCEPT !.chunks = Tail(@)]]
    ELSE [err |-> FALSE, bytes |-> SubSeq(Head(stream.chunks), 1, BufferSize),
          stream |-> [stream EXCEPT !.chunks =
                         <<SubSeq(Head(@), BufferSize + 1, Len(Head(@)))>> \o Tail(@)]]

\* read_more leaving the offset where it was instead of setting it to 0
ReadInto_keep_offset(x, r) ==
    IF r.err
    THEN [err |-> TRUE, io |-> x]
    ELSE [err |-> FALSE,
          io |-> [state |-> [buffer |-> r.bytes,
                             length |-> Len(r.bytes),
                             offset |-> x.state.offset,
                             can_read_more |-> Len(r.bytes) > 0],
                  stream |-> r.stream]]

\* ReadState::read_more after `stream.read(&mut self.buffer)` returned r
ReadInto(x, r) ==
    IF r.err
    THEN [err |-> TRUE, io |-> x]
    ELSE [err |-> FALSE,
          io |-> [state |-> [buffer |-> r.bytes,
                             length |-> Len(r.bytes),
                             offset |-> 0,
                             can_read_more |-> Len(r.bytes) > 0],
                  stream |-> r.stream]]

\* ReadState::read_more
read_more(x) ==
    ReadInto(x, StreamRead(x.stream))

RECURSIVE current(_)
\* ReadState::current after `self.read_more(stream)?` returned r
CurrentAfterRead(r) ==
    IF r.err THEN [err |-> TRUE, b |-> NoByte, io |-> r.io] ELSE current(r.io)

\* ReadState::current
current(x) ==
    IF x.state.offset < x.state.length
    THEN [err |-> FALSE, b |-> x.state.buffer[x.state.offset + 1], io |-> x]
    ELSE IF x.state.can_read_more THEN CurrentAfterRead(read_more(x))
    ELSE [err |-> FALSE, b |-> NoByte, io |-> x]

---------------------------------------------------------------------------
(* resp.rs: deserialize_object *)

is_digit(b) ==
    Ch0 <= b /\ b <= Ch9

\* Err(e) of a deserialize call
Failed(e, x) ==
    [ok |-> FALSE, obj |-> NoObject, err |-> e, io |-> x]

\* Ok(object) of a deserialize call
Decoded(object, x) ==
    [ok |-> TRUE, obj |-> object, err |-> "", io |-> x]

\* the body of read_digits' loop, given the current byte
RECURSIVE ReadDigitsFrom(_, _)
ReadDigitsStep(c, result) ==
    IF c.err THEN [err |-> TRUE, digits |-> result, io |-> c.io]
    ELSE IF c.b # NoByte /\ is_digit(c.b)
         THEN ReadDigitsFrom(advance(c.io), Append(result, c.b))
         ELSE [err |-> FALSE, digits |-> result, io |-> c.io]

\* the loop of read_digits
ReadDigitsFrom(x, result) ==
    ReadDigitsStep(current(x), result)

read_digits(x) ==
    ReadDigitsFrom(x, <<>>)

\* the match of expect, given the current byte
ExpectMatch(c, expected) ==
    IF c.err THEN [ok |-> FALSE, err |-> "io error", io |-> c.io]
    ELSE IF c.b = expected THEN [ok |-> TRUE, err |-> "", io |-> advance(c.io)]
    ELSE IF c.b # NoByte THEN [ok |-> FALSE, err |-> "expected byte but got another", io |-> c.io]
    ELSE [ok |-> FALSE, err |-> "expected byte but reached end of input", io |-> c.io]

expect(x, expected) ==
    ExpectMatch(current(x), expected)

\* expect(input, stream, b'\n') after the result of expecting b'\r'
ExpectLF(r) ==
    IF r.ok THEN expect(r.io, LF) ELSE r

expect_delimiter(x) ==
    ExpectLF(expect(x, CR))

RECURSIVE StripZeros(_)
StripZeros(ds) ==
    IF Len(ds) > 1 /\ Head(ds) = Ch0 THEN StripZeros(Tail(ds)) ELSE ds

RECURSIVE DigitsLeq(_, _)
\* ds <= max for two digit strings of the same length
DigitsLeq(ds, max) ==
    IF ds = <<>> THEN TRUE
    ELSE IF Head(ds) < Head(max) THEN TRUE
    ELSE IF Head(ds) > Head(max) THEN FALSE
    ELSE DigitsLeq(Tail(ds), Tail(max))

RECURSIVE DecValue(_)
\* the number a string of decimal digits denotes
DecValue(ds) ==
    IF ds = <<>> THEN 0
    ELSE 10 * DecValue(SubSeq(ds, 1, Len(ds) - 1)) + (ds[Len(ds)] - Ch0)

\* whether the digits denote a number <= the one max denotes
FitsIn(ds, max) ==
    LET s == StripZeros(ds)
    IN Len(s) < Len(max) \/ (Len(s) = Len(max) /\ DigitsLeq(s, max))

\* u32::MAX = 4294967295
U32MaxDigits ==
    <<52, 50, 57, 52, 57, 54, 55, 50, 57, 53>>

\* i64::MAX = 9223372036854775807
I64MaxDigits ==
    <<57, 50, 50, 51, 51, 55, 50, 48, 51, 54, 56, 53, 52, 55, 55, 53, 56, 48, 55>>

\* resp::parse_u32 on the digits read_digits returned
parse_u32(s) ==
    IF s # <<>> /\ FitsIn(s, U32MaxDigits)
    THEN [ok |-> TRUE, value |-> DecValue(s)]
    ELSE [ok |-> FALSE, value |-> 0]

\* resp::parse_i64 on the digits read_digits returned
resp_parse_i64(s) ==
    IF s # <<>> /\ FitsIn(s, I64MaxDigits)
    THEN [ok |-> TRUE, value |-> DecValue(s)]
    ELSE [ok |-> FALSE, value |-> 0]

\* deserialize_integer from `let value = parse_i64(&value)?`
IntegerValue(sign, v, x) ==
    IF ~v.ok THEN Failed("couldn't parse as a signed 64 bit integer", x)
    ELSE Decoded(Integer(IF sign = Minus THEN 0 - v.value ELSE v.value), x)

\* deserialize_integer after expect_delimiter returned e
IntegerDelimiter(sign, digits, e) ==
    IF ~e.ok THEN Failed(e.err, e.io)
    ELSE IntegerValue(sign, resp_parse_i64(digits), e.io)

\* deserialize_integer after read_digits returned d
IntegerDigits(sign, d) ==
    IF d.err THEN Failed("io error", d.io)
    ELSE IntegerDelimiter(sign, d.digits, expect_delimiter(d.io))

\* deserialize_integer's match on the byte c after ':'
IntegerSign(c) ==
    IF c.err THEN Failed("io error", c.io)
    ELSE IF c.b = Plus \/ c.b = Minus
         THEN IntegerDigits(c.b, read_digits(advance(c.io)))
         ELSE IntegerDigits(NoByte, read_digits(c.io))

deserialize_integer(x) ==
    IntegerSign(current(advance(current(x).io)))

\* the body of the loop of deserialize_bulk_string, given the current byte
RECURSIVE ReadBulkBytes(_, _, _)
ReadBulkByte(c, n, string) ==
    IF c.err THEN [ok |-> FALSE, err |-> "io error", bytes |-> string, io |-> c.io]
    ELSE IF c.b = NoByte
         THEN [ok |-> FALSE, err |-> "unexpected end of input while reading bulk string",
               bytes |-> string, io |-> c.io]
         ELSE ReadBulkBytes(advance(c.io), n - 1, Append(string, c.b))

\* the loop of deserialize_bulk_string: n more payload bytes
ReadBulkBytes(x, n, string) ==
    IF n = 0 THEN [ok |-> TRUE, err |-> "", bytes |-> string, io |-> x]
    ELSE ReadBulkByte(current(x), n, string)

\* deserialize_bulk_string after the closing expect_delimiter returned e
BulkEnd(string, e) ==
    IF ~e.ok THEN Failed(e.err, e.io) ELSE Decoded(BulkString(string), e.io)

\* deserialize_bulk_string after its loop returned s
BulkPayload(s) ==
    IF ~s.ok THEN Failed(s.err, s.io) ELSE BulkEnd(s.bytes, expect_delimiter(s.io))

\* deserialize_bulk_string after the first expect_delimiter returned e
BulkDelimiter(length, e) ==
    IF ~e.ok THEN Failed(e.err, e.io) ELSE BulkPayload(ReadBulkBytes(e.io, length, <<>>))

\* deserialize_bulk_string after parse_u32 returned length
BulkLength(length, x) ==
    IF ~length.ok THEN Failed("couldn't parse as an unsigned 32 bit integer", x)
    ELSE BulkDelimiter(length.value, expect_delimiter(x))

\* deserialize_bulk_string after read_digits returned d
BulkDigits(d) ==
    IF d.err THEN Failed("io error", d.io) ELSE BulkLength(parse_u32(d.digits), d.io)

deserialize_bulk_string(x) ==
    BulkDigits(read_digits(advance(current(x).io)))

RECURSIVE deserialize_object(_)
RECURSIVE ReadItems(_, _, _)
\* the body of the loop of deserialize_array, given the element's result
ReadItem(r, n, items) ==
    IF ~r.ok THEN r ELSE ReadItems(r.io, n - 1, Append(items, r.obj))

\* the loop of deserialize_array: n more elements
ReadItems(x, n, items) ==
    IF n = 0 THEN Decoded(Array(items), x)
    ELSE ReadItem(deserialize_object(x), n, items)

\* deserialize_array after expect_delimiter returned e
ArrayDelimiter(length, e) ==
    IF ~e.ok THEN Failed(e.err, e.io) ELSE ReadItems(e.io, length, <<>>)

\* deserialize_array after parse_u32 returned length
ArrayLength(length, x) ==
    IF ~length.ok THEN Failed("couldn't parse as an unsigned 32 bit integer", x)
    ELSE ArrayDelimiter(length.value, expect_delimiter(x))

\* deserialize_array after read_digits returned d
ArrayDigits(d) ==
    IF d.err THEN Failed("io error", d.io) ELSE ArrayLength(parse_u32(d.digits), d.io)

deserialize_array(x) ==
    ArrayDigits(read_digits(advance(current(x).io)))

\* the match of deserialize_object on the current byte
ObjectTag(c) ==
    IF c.err THEN Failed("io error", c.io)
    ELSE IF c.b = Dollar THEN deserialize_bulk_string(c.io)
    ELSE IF c.b = Star THEN deserialize_array(c.io)
    ELSE IF c.b = Colon THEN deserialize_integer(c.io)
    ELSE IF c.b # NoByte THEN Failed("byte is not a data type", c.io)
    ELSE Failed("unexpected end of state", c.io)

deserialize_object(x) ==
    ObjectTag(current(x))

---------------------------------------------------------------------------
(* engine.rs: the 64-bit integers of parse_i64 and of the PX duration *)

\* 64-bit integers are carried as three decimal limbs of seven digits each:
\* the value is hi * Limb^2 + mid * Limb + lo
Limb ==
    10000000

Wide(hi, mid, lo) ==
    [hi |-> hi, mid |-> mid, lo |-> lo]

\* 2^63, one more than i64::MAX
Two63 ==
    Wide(92233, 7203685, 4775808)

\* 2^64, one more than u64::MAX
Two64 ==
    Wide(184467, 4407370, 9551616)

WideLess(a, b) ==
    \/ a.hi < b.hi
    \/ a.hi = b.hi /\ a.mid < b.mid
    \/ a.hi = b.hi /\ a.mid = b.mid /\ a.lo < b.lo

\* a - b for a >= b
WideMinus(a, b) ==
    LET lo == a.lo - b.lo
        borrow_lo == IF lo < 0 THEN 1 ELSE 0
        mid == a.mid - b.mid - borrow_lo
        borrow_mid == IF mid < 0 THEN 1 ELSE 0
    IN Wide(a.hi - b.hi - borrow_mid,
            IF mid < 0 THEN mid + Limb ELSE mid,
            IF lo < 0 THEN lo + Limb ELSE lo)

\* 10 * n + digit, in full
Times10Plus(n, digit) ==
    LET lo == 10 * n.lo + digit
        mid == 10 * n.mid + (lo \div Limb)
    IN Wide(10 * n.hi + (mid \div Limb), mid % Limb, lo % Limb)

RECURSIVE Wrap64(_)
\* the low 64 bits of n: what wrapping arithmetic keeps of a result
Wrap64(n) ==
    IF WideLess(n, Two64) THEN n ELSE Wrap64(WideMinus(n, Two64))

\* a + b, in full
WidePlus(a, b) ==
    LET lo == a.lo + b.lo
        mid == a.mid + b.mid + (lo \div Limb)
    IN Wide(a.hi + b.hi + (mid \div Limb), mid % Limb, lo % Limb)

\* a count of the model (a list length, a clock reading) as a 64-bit integer
WideOf(n) ==
    Wide(0, n \div Limb, n % Limb)

\* the i64 whose two's complement bit pattern is n: its sign and its
\* magnitude
Signed(n) ==
    IF WideLess(n, Two63)
    THEN [neg |-> FALSE, mag |-> n]
    ELSE [neg |-> TRUE, mag |-> WideMinus(Two64, n)]

---------------------------------------------------------------------------
(* engine.rs: Entry, EntryBuilder *)

\* Option<time::Duration>: None
NoDuration ==
    [some |-> FALSE, ms |-> Wide(0, 0, 0)]

\* Some(time::Duration::from_millis(ms))
SomeDuration(ms) ==
    [some |-> TRUE, ms |-> ms]

\* EntryBuilder::new(value) then duration_ms, then build() at time t
BuildEntry(value, duration, t) ==
    [value |-> value, created_at |-> t, duration |-> duration]

\* HashMap::insert
Insert(d, key, entry) ==
    [k \in DOMAIN d \cup {key} |-> IF k = key THEN entry ELSE d[k]]

\* the result of a command: the reply Object and the store after it
Result(reply, d) ==
    [reply |-> reply, data |-> d]

---------------------------------------------------------------------------
(* engine.rs: helpers *)

to_ascii_uppercase(b) ==
    IF ChLowerA <= b /\ b <= ChLowerZ THEN b - CaseShift ELSE b

convert_to_ascii_uppercase(s) ==
    [i \in 1..Len(s) |-> to_ascii_uppercase(s[i])]

RECURSIVE ParseDigits(_, _, _)
\* the loop of engine::parse_i64: None on a byte that is no digit. n is the
\* bit pattern of the i64 accumulated so far; overflow tells that some
\* `10 * n + digit` left the range of i64, where a build with overflow checks
\* panics and a build without them goes on with the low 64 bits
ParseDigits(s, n, overflow) ==
    IF s = <<>> THEN [some |-> TRUE, bits |-> n, overflow |-> overflow]
    ELSE IF Ch0 <= Head(s) /\ Head(s) <= Ch9
         THEN LET m == Times10Plus(n, Head(s) - Ch0)
              IN IF WideLess(m, Two63) THEN ParseDigits(Tail(s), m, overflow)
                 ELSE ParseDigits(Tail(s), Wrap64(m), TRUE)
         ELSE [some |-> FALSE, bits |-> Wide(0, 0, 0), overflow |-> overflow]

\* engine::parse_i64
parse_i64(s) ==
    IF s = <<>> THEN [some |-> FALSE, value |-> Signed(Wide(0, 0, 0)), overflow |-> FALSE]
    ELSE LET is_negative == s[1] = Minus
             rest == IF s[1] = Minus \/ s[1] = Plus THEN Tail(s) ELSE s
         IN IF rest = <<>>
            THEN [some |-> FALSE, value |-> Signed(Wide(0, 0, 0)), overflow |-> FALSE]
            ELSE LET n == ParseDigits(rest, Wide(0, 0, 0), FALSE)
                 IN IF ~n.some
                    THEN [some |-> FALSE, value |-> Signed(Wide(0, 0, 0)),
                          overflow |-> n.overflow]
                    ELSE [some |-> TRUE,
                          value |-> IF is_negative
                                    THEN Signed(Wrap64(WideMinus(Two64, n.bits)))
                                    ELSE Signed(n.bits),
                          overflow |-> n.overflow \/ (is_negative /\ n.bits = Two63)]

\* the digit test of the PX loop of do_set
IsPxDigit(b) ==
    Ch0 <= b /\ b < Ch9

RECURSIVE ParsePx(_, _, _)
\* the PX loop of do_set: the duration in milliseconds, a u64; overflow tells
\* that some `10 * duration_ms + digit` left the range of u64
ParsePx(option, duration_ms, overflow) ==
    IF option = <<>>
    THEN [ok |-> TRUE, ms |-> duration_ms, overflow |-> overflow]
    ELSE IF IsPxDigit(Head(option))
         THEN LET m == Times10Plus(duration_ms, Head(option) - Ch0)
              IN IF WideLess(m, Two64) THEN ParsePx(Tail(option), m, overflow)
                 ELSE ParsePx(Tail(option), Wrap64(m), TRUE)
         ELSE [ok |-> FALSE, ms |-> Wide(0, 0, 0), overflow |-> overflow]

Max(a, b) ==
    IF a >= b THEN a ELSE b

Min(a, b) ==
    IF a <= b THEN a ELSE b

\* `if i < 0 { max(0, len as i64 + i) } else { i } as usize`
IndexFrom(len, i) ==
    IF ~i.neg THEN i.mag
    ELSE IF WideLess(WideOf(len), i.mag) THEN WideOf(0)
    ELSE WideOf(len - i.mag.lo)

\* lrange with the stop index taken as exclusive
lrange_exclusive_stop(items, start, stop) ==
    LET len == Len(items)
        start1 == IndexFrom(len, start)
        stop1 == IndexFrom(len, stop)
    IN IF len = 0 THEN <<>>
       ELSE IF ~WideLess(start1, WideOf(len)) \/ WideLess(stop1, start1) THEN <<>>
       ELSE SubSeq(items, start1.lo + 1,
                   IF WideLess(stop1, WideOf(len - 1)) THEN stop1.lo ELSE len - 1)

\* ObjectArray::lrange
lrange(items, start, stop) ==
    LET len == Len(items)
        start1 == IndexFrom(len, start)
        stop1 == IndexFrom(len, stop)
    IN IF len = 0 THEN <<>>
       ELSE IF ~WideLess(start1, WideOf(len)) \/ WideLess(stop1, start1) THEN <<>>
       ELSE SubSeq(items, start1.lo + 1,
                   (IF WideLess(stop1, WideOf(len - 1)) THEN stop1.lo ELSE len - 1) + 1)

\* the nanoseconds of the millisecond Duration::from_millis counts in
NanosPerMilli ==
    1000000

\* entry.created_at + duration < time::Instant::now(): the instants are in
\* nanoseconds and the duration is a whole number of milliseconds, so the
\* two sides are compared by their milliseconds first and then by the
\* nanoseconds within the millisecond
is_expired(entry, t) ==
    /\ entry.duration.some
    /\ LET due == WidePlus(WideOf(entry.created_at \div NanosPerMilli), entry.duration.ms)
           ms == WideOf(t \div NanosPerMilli)
       IN \/ WideLess(due, ms)
          \/ due = ms /\ entry.created_at % NanosPerMilli < t % NanosPerMilli

RECURSIVE PushBack(_, _)
\* the loop of do_rpush: array.items.push(element)
PushBack(items, elements) ==
    IF elements = <<>> THEN items
    ELSE PushBack(Append(items, Head(elements)), Tail(elements))

\* do_lpush's loop putting the values in front as one block, in argument order
PushFront_as_block(items, elements) ==
    elements \o items

RECURSIVE PushFront(_, _)
\* the loop of do_lpush: array.items.insert(0, element)
PushFront(items, elements) ==
    IF elements = <<>> THEN items
    ELSE PushFront(<<Head(elements)>> \o items, Tail(elements))

---------------------------------------------------------------------------
(* engine.rs: the commands.  elements are the arguments after the name,   *)
(* d the store, t the time Instant::now() returns during the call.         *)

\* do_lpop taking the last element instead of the first
do_lpop_last(d, elements) ==
    IF elements = <<>> THEN Result(Error(MsgLlenKey), d)
    ELSE LET key == Head(elements)
         IN IF key \notin DOMAIN d THEN Result(NullBulk, d)
            ELSE IF ~IsArray(d[key].value) THEN Result(NullBulk, d)
            ELSE IF d[key].value.items = <<>> THEN Result(NullBulk, d)
            ELSE LET items == d[key].value.items
                 IN Result(items[Len(items)],
                           [d EXCEPT ![key].value = Array(SubSeq(items, 1, Len(items) - 1))])

do_lpop(d, elements) ==
    IF elements = <<>> THEN Result(Error(MsgLlenKey), d)
    ELSE LET key == Head(elements)
         IN IF key \notin DOMAIN d THEN Result(NullBulk, d)
            ELSE IF ~IsArray(d[key].value) THEN Result(NullBulk, d)
            ELSE IF d[key].value.items = <<>> THEN Result(NullBulk, d)
            ELSE Result(Head(d[key].value.items),
                        [d EXCEPT ![key].value = Array(Tail(d[key].value.items))])

\* do_llen answering 0 for an entry whose TTL has run out
do_llen_expiring(d, elements) ==
    IF elements = <<>> THEN Result(Error(MsgLlenKey), d)
    ELSE LET key == Head(elements)
         IN IF key \notin DOMAIN d THEN Result(Integer(0), d)
            ELSE IF is_expired(d[key], now)
                 THEN Result(Integer(0), d)
            ELSE IF ~IsArray(d[key].value) THEN Result(Integer(0), d)
            ELSE Result(Integer(Len(d[key].value.items)), d)

do_llen(d, elements) ==
    IF elements = <<>> THEN Result(Error(MsgLlenKey), d)
    ELSE LET key == Head(elements)
         IN IF key \notin DOMAIN d THEN Result(Integer(0), d)
            ELSE IF ~IsArray(d[key].value) THEN Result(Integer(0), d)
            ELSE Result(Integer(Len(d[key].value.items)), d)

do_lrange(d, elements) ==
    IF Len(elements) < 1 THEN Result(Error(MsgLrangeKey), d)
    ELSE IF Len(elements) < 2 \/ ~IsSomeBulk(elements[2])
         THEN Result(Error(MsgLrangeStart), d)
    ELSE IF Len(elements) < 3 \/ ~IsSomeBulk(elements[3])
         THEN Result(Error(MsgLrangeStop), d)
    ELSE LET key == elements[1]
             start == parse_i64(elements[2].bytes)
             stop == parse_i64(elements[3].bytes)
         IN IF ~start.some THEN Result(Error(MsgParseStart), d)
            ELSE IF ~stop.some THEN Result(Error(MsgParseStop), d)
            ELSE IF key \notin DOMAIN d THEN Result(new_empty_array, d)
            ELSE IF ~IsArray(d[key].value) THEN Result(new_empty_array, d)
            ELSE Result(Array(lrange(d[key].value.items, start.value, stop.value)), d)

\* or_insert taking an entry whose TTL has run out for a vacant one
EntryOrInsert_over_expired(d, key, t) ==
    IF key \in DOMAIN d
       /\ ~is_expired(d[key], t)
    THEN d
    ELSE Insert(d, key, BuildEntry(new_empty_array, NoDuration, t))

\* the entry of the key replaced by a new empty list whatever it holds
EntryOrInsert_replace(d, key, t) ==
    Insert(d, key, BuildEntry(new_empty_array, NoDuration, t))

\* self.data.entry(key).or_insert(EntryBuilder::new(Object::new_empty_array()).build())
EntryOrInsert(d, key, t) ==
    IF key \in DOMAIN d THEN d
    ELSE Insert(d, key, BuildEntry(new_empty_array, NoDuration, t))

do_rpush(d, elements, t) ==
    IF elements = <<>> THEN Result(Error(MsgRpushKey), d)
    ELSE IF Tail(elements) = <<>> THEN Result(Error(MsgRpushElement), d)
    ELSE LET key == Head(elements)
             d1 == EntryOrInsert(d, key, t)
         IN IF ~IsArray(d1[key].value) THEN Result(Error(MsgNotAnArray), d1)
            ELSE LET items == PushBack(d1[key].value.items, Tail(elements))
                 IN Result(Integer(Len(items)), [d1 EXCEPT ![key].value = Array(items)])

do_lpush(d, elements, t) ==
    IF elements = <<>> THEN Result(Error(MsgLpushKey), d)
    ELSE IF Tail(elements) = <<>> THEN Result(Error(MsgLpushElement), d)
    ELSE LET key == Head(elements)
             d1 == EntryOrInsert(d, key, t)
         IN IF ~IsArray(d1[key].value) THEN Result(Error(MsgNotAnArray), d1)
            ELSE LET items == PushFront(d1[key].value.items, Tail(elements))
                 IN Result(Integer(Len(items)), [d1 EXCEPT ![key].value = Array(items)])

do_echo(d, elements) ==
    IF elements = <<>> THEN Result(Error(MsgEchoArg), d)
    ELSE IF Tail(elements) # <<>> THEN Result(Error(MsgEchoOne), d)
    ELSE Result(Head(elements), d)

\* the match on the third and fourth arguments of do_set: the duration the
\* EntryBuilder ends with, or the Error the match returns
SetOptions(elements) ==
    IF Len(elements) >= 3 /\ IsSomeBulk(elements[3])
       /\ convert_to_ascii_uppercase(elements[3].bytes) = B_PX
    THEN IF Len(elements) >= 4 /\ IsSomeBulk(elements[4])
         THEN LET p == ParsePx(elements[4].bytes, Wide(0, 0, 0), FALSE)
              IN IF p.ok THEN [ok |-> TRUE, duration |-> SomeDuration(p.ms), err |-> <<>>]
                 ELSE [ok |-> FALSE, duration |-> NoDuration, err |-> MsgInvalidPx]
         ELSE [ok |-> FALSE, duration |-> NoDuration, err |-> MsgPxDuration]
    ELSE [ok |-> TRUE, duration |-> NoDuration, err |-> <<>>]

\* do_set writing only the value of an entry the key already has
do_set_keep_ttl(d, elements, t) ==
    IF Len(elements) < 1 THEN Result(Error(MsgSetKey), d)
    ELSE IF Len(elements) < 2 THEN Result(Error(MsgSetValue), d)
    ELSE LET o == SetOptions(elements)
         IN IF ~o.ok THEN Result(Error(o.err), d)
            ELSE IF elements[1] \in DOMAIN d
                 THEN Result(SimpleString(B_OK),
                             [d EXCEPT ![elements[1]].value = elements[2]])
            ELSE Result(SimpleString(B_OK),
                        Insert(d, elements[1], BuildEntry(elements[2], o.duration, t)))

\* do_set inserting the entry before it has looked at the PX option
do_set_insert_first(d, elements, t) ==
    IF Len(elements) < 1 THEN Result(Error(MsgSetKey), d)
    ELSE IF Len(elements) < 2 THEN Result(Error(MsgSetValue), d)
    ELSE LET o == SetOptions(elements)
             d1 == Insert(d, elements[1], BuildEntry(elements[2], NoDuration, t))
         IN IF ~o.ok THEN Result(Error(o.err), d1)
            ELSE Result(SimpleString(B_OK),
                        Insert(d, elements[1], BuildEntry(elements[2], o.duration, t)))

do_set(d, elements, t) ==
    IF Len(elements) < 1 THEN Result(Error(MsgSetKey), d)
    ELSE IF Len(elements) < 2 THEN Result(Error(MsgSetValue), d)
    ELSE LET o == SetOptions(elements)
         IN IF ~o.ok THEN Result(Error(o.err), d)
            ELSE Result(SimpleString(B_OK),
                        Insert(d, elements[1], BuildEntry(elements[2], o.duration, t)))

\* HashMap::remove
Remove(d, key) ==
    [k \in DOMAIN d \ {key} |-> d[k]]

\* do_get removing the entry it finds expired
do_get_evict_expired(d, elements, t) ==
    IF elements = <<>> THEN Result(Error(MsgGetKey), d)
    ELSE IF Tail(elements) # <<>> THEN Result(Error(MsgGetOne), d)
    ELSE LET key == Head(elements)
         IN IF key \notin DOMAIN d THEN Result(NullBulk, d)
            ELSE IF is_expired(d[key], t) THEN Result(NullBulk, Remove(d, key))
            ELSE Result(d[key].value, d)

do_get(d, elements, t) ==
    IF elements = <<>> THEN Result(Error(MsgGetKey), d)
    ELSE IF Tail(elements) # <<>> THEN Result(Error(MsgGetOne), d)
    ELSE LET key == Head(elements)
         IN IF key \notin DOMAIN d THEN Result(NullBulk, d)
            ELSE IF is_expired(d[key], t) THEN Result(NullBulk, d)
            ELSE Result(d[key].value, d)

\* the match on the upper-cased command name
Dispatch(d, command, elements, t) ==
    CASE command = B_GET -> do_get(d, elements, t)
      [] command = B_PING -> Result(SimpleString(B_PONG), d)
      [] command = B_ECHO -> do_echo(d, elements)
      [] command = B_RPUSH -> do_rpush(d, elements, t)
      [] command = B_LPUSH -> do_lpush(d, elements, t)
      [] command = B_SET -> do_set(d, elements, t)
      [] command = B_LRANGE -> do_lrange(d, elements)
      [] command = B_LLEN -> do_llen(d, elements)
      [] command = B_LPOP -> do_lpop(d, elements)
      [] OTHER -> Result(Error(MsgUnknownCommand), d)

\* Engine::do_command
do_command(d, object, t) ==
    IF ~IsArray(object) THEN Result(Error(MsgExpectedArray), d)
    ELSE IF object.items = <<>> THEN Result(Error(MsgExpectedArray), d)
    ELSE IF ~IsSomeBulk(Head(object.items)) THEN Result(Error(MsgExpectedName), d)
    ELSE Dispatch(d, convert_to_ascii_uppercase(Head(object.items).bytes),
                  Tail(object.items), t)

---------------------------------------------------------------------------
(* Bounds and the inputs drawn within them *)

\* the clock advances by at most this many whole milliseconds
MaxTime == 1

\* and, within a millisecond, by at most this many nanoseconds
MaxNanos == 2

\* a stored list grows to at most this many elements
MaxListLen == 3

\* and to at most this many in the runs where the clock advances
MaxTimedLen == 2

\* b"k", b"j": the keys
KeyK ==
    BulkString(<<107>>)

KeyJ ==
    BulkString(<<106>>)

\* b"x", b"y", b"z": the values
ValX ==
    BulkString(<<120>>)

ValY ==
    BulkString(<<121>>)

ValZ ==
    BulkString(<<122>>)

\* the arguments given after PX: "0", "1", "9", "1x"
PxArgs ==
    {<<48>>, <<49>>, <<57>>, <<49, 120>>}

\* the start and stop arguments of LRANGE: "0", "1", "2", "5", "-1", "-2", "-5", "+1", "x"
IndexArgs ==
    {<<48>>, <<49>>, <<50>>, <<53>>, <<45, 49>>, <<45, 50>>, <<45, 53>>, <<43, 49>>, <<120>>}

\* a command: the name and its arguments
Cmd(name, args) ==
    Array(<<BulkString(name)>> \o args)

\* b"set", b"FOO"
B_set_lower ==
    <<115, 101, 116>>

B_FOO ==
    <<70, 79, 79>>

\* the commands of the timed runs: reads and writes of KeyK with and without
\* a TTL, a second key, and commands that name no key or have a bad shape
EngineCommands ==
    {Cmd(B_GET, <<KeyK>>), Cmd(B_LLEN, <<KeyK>>), Cmd(B_LPOP, <<KeyK>>),
     Cmd(B_LRANGE, <<KeyK, BulkString(<<48>>), BulkString(<<45, 49>>)>>),
     Cmd(B_SET, <<KeyK, ValX>>), Cmd(B_set_lower, <<KeyK, ValY>>),
     Cmd(B_SET, <<KeyK, Array(<<ValY>>), BulkString(B_PX), BulkString(<<49>>)>>),
     Cmd(B_RPUSH, <<KeyK, ValX>>), Cmd(B_LPUSH, <<KeyK, ValX, ValY>>),
     Cmd(B_GET, <<KeyJ>>), Cmd(B_SET, <<KeyJ, ValX>>),
     Cmd(B_PING, <<>>), Cmd(B_FOO, <<KeyK>>), Cmd(B_RPUSH, <<KeyK>>)}
    \cup {Cmd(B_SET, <<KeyK, ValX, BulkString(B_PX), BulkString(m)>>) : m \in PxArgs}

\* the commands with a bad shape, a bad argument count or a bad argument type
CommandsBad ==
    {Integer(1), Array(<<>>), Array(<<Integer(1), KeyK>>),
     Cmd(B_GET, <<>>), Cmd(B_GET, <<KeyK, KeyK>>), Cmd(B_SET, <<>>), Cmd(B_SET, <<KeyK>>),
     Cmd(B_SET, <<KeyK, ValY, BulkString(B_PX)>>),
     Cmd(B_SET, <<KeyK, ValY, BulkString(B_PX), Integer(1)>>),
     Cmd(B_SET, <<KeyK, ValY, BulkString(B_PX), BulkString(<<49, 120>>)>>),
     Cmd(B_RPUSH, <<>>), Cmd(B_RPUSH, <<KeyK>>), Cmd(B_LPUSH, <<>>), Cmd(B_LPUSH, <<KeyK>>),
     Cmd(B_LRANGE, <<>>), Cmd(B_LRANGE, <<KeyK>>), Cmd(B_LRANGE, <<KeyK, BulkString(<<48>>)>>),
     Cmd(B_LRANGE, <<KeyK, Integer(0), BulkString(<<48>>)>>),
     Cmd(B_ECHO, <<>>), Cmd(B_ECHO, <<ValX, ValY>>), Cmd(B_LLEN, <<>>), Cmd(B_LPOP, <<>>),
     Cmd(B_FOO, <<KeyK>>)}

\* the commands of the untimed runs: lists of three values under pushes, pops
\* and LRANGE with every pair of index arguments, and the bad commands
ListCommands ==
    {Cmd(B_RPUSH, <<KeyK, ValX>>), Cmd(B_RPUSH, <<KeyK, ValY, ValZ>>),
     Cmd(B_LPUSH, <<KeyK, ValZ>>), Cmd(B_LPUSH, <<KeyK, ValX, ValY>>),
     Cmd(B_LPOP, <<KeyK>>), Cmd(B_LLEN, <<KeyK>>), Cmd(B_GET, <<KeyK>>),
     Cmd(B_SET, <<KeyK, ValX>>), Cmd(B_PING, <<ValX>>)}
    \cup {Cmd(B_LRANGE, <<KeyK, BulkString(s), BulkString(e)>>) : s \in IndexArgs, e \in IndexArgs}
    \cup CommandsBad

---------------------------------------------------------------------------
(* Idle values of the parts a specification does not run *)

RouterIdle ==
    /\ connection_id = 0
    /\ handlers = <<>>
    /\ rx_req = <<>>
    /\ rx_res = <<>>
    /\ senders = <<>>
    /\ n_sent = 0
    /\ applied = <<>>
    /\ taken = <<>>

EngineIdle ==
    /\ data = <<>>
    /\ now = 0
    /\ last_cmd = NoObject
    /\ last_reply = NoObject
    /\ writes = <<>>

CodecIdle ==
    /\ phase = [at |-> "idle", n |-> 0]
    /\ objs = <<>>
    /\ cuts = {}
    /\ wire = <<>>
    /\ io = NewIo(<<>>, FALSE)
    /\ decoded = <<>>
    /\ sink = <<>>

---------------------------------------------------------------------------
(* The engine alone: one do_command call per step, the clock in between *)

\* the upper-cased name of a command Object, or <<>> when it has none
CommandName(c) ==
    IF IsArray(c) /\ c.items # <<>> /\ IsSomeBulk(c.items[1])
    THEN convert_to_ascii_uppercase(c.items[1].bytes)
    ELSE <<>>

\* the command is one of the four that write, and names a key
IsWrite(c) ==
    /\ CommandName(c) \in {B_SET, B_RPUSH, B_LPUSH, B_LPOP}
    /\ Len(c.items) >= 2

\* the command has the shape SET key value PX duration
IsSetPx(c) ==
    /\ CommandName(c) = B_SET
    /\ Len(c.items) >= 5
    /\ IsSomeBulk(c.items[4]) /\ convert_to_ascii_uppercase(c.items[4].bytes) = B_PX
    /\ IsSomeBulk(c.items[5])

\* writes after command c at time t: for each key, whether the latest write
\* command aimed at it was a SET .. PX, and then that command and its time
NoteWrite(w, c, t) ==
    IF ~IsWrite(c) THEN w
    ELSE IF IsSetPx(c) THEN Insert(w, c.items[2], [px |-> TRUE, cmd |-> c, at |-> t])
    ELSE Insert(w, c.items[2], [px |-> FALSE, cmd |-> NoObject, at |-> 0])

\* no stored list is longer than max
WithinListBound(d, max) ==
    \A k \in DOMAIN d : IsArray(d[k].value) => Len(d[k].value.items) <= max

\* the engine thread's call engine.do_command(object) at the current time
EngineApply(c, max) ==
    LET r == do_command(data, c, now)
    IN /\ WithinListBound(r.data, max)
       /\ data' = r.data
       /\ last_cmd' = c
       /\ last_reply' = r.reply
       /\ writes' = NoteWrite(writes, c, now)
       /\ UNCHANGED now

\* time passes between two commands: a nanosecond, or a whole millisecond
Tick ==
    /\ \/ /\ now % NanosPerMilli < MaxNanos
          /\ now' = now + 1
       \/ /\ now \div NanosPerMilli < MaxTime
          /\ now' = now + NanosPerMilli
    /\ UNCHANGED <<data, last_cmd, last_reply, writes>>

EngineCall ==
    /\ \E c \in EngineCommands : EngineApply(c, MaxTimedLen)
    /\ UNCHANGED <<router_vars, codec_vars>>

EngineTick ==
    /\ Tick
    /\ UNCHANGED <<router_vars, codec_vars>>

\* the state after construction: nothing accepted, the store empty, the
\* clock at 0
Init ==
    RouterIdle /\ EngineIdle /\ CodecIdle

SpecEngine ==
    Init /\ [][EngineCall \/ EngineTick]_vars

\* the engine under the list commands, the clock standing still
ListCall ==
    /\ \E c \in ListCommands : EngineApply(c, MaxListLen)
    /\ UNCHANGED <<router_vars, codec_vars>>

SpecLists ==
    Init /\ [][ListCall]_vars


\* the commands of the runs on replaced entries: SET of KeyK with a TTL of
\* 0 or 1 ms and without one, GET of it, and the same for a second key
TtlCommands ==
    {Cmd(B_SET, <<KeyK, ValX, BulkString(B_PX), BulkString(<<49>>)>>),
     Cmd(B_SET, <<KeyK, ValZ, BulkString(B_PX), BulkString(<<48>>)>>),
     Cmd(B_SET, <<KeyK, ValY>>), Cmd(B_GET, <<KeyK>>),
     Cmd(B_SET, <<KeyJ, ValX>>), Cmd(B_GET, <<KeyJ>>),
     Cmd(B_SET, <<KeyJ, ValY, BulkString(B_PX), BulkString(<<48>>)>>)}

\* writes after command c answered `reply` at time t: for each key its two
\* latest SET commands that returned OK, the latest first, each with its time
NoteSets(w, c, reply, t) ==
    IF CommandName(c) = B_SET /\ reply = SimpleString(B_OK)
    THEN LET k == c.items[2]
             latest == [cmd |-> c, at |-> t]
         IN Insert(w, k, IF k \in DOMAIN w THEN <<latest, w[k][1]>> ELSE <<latest>>)
    ELSE w

\* the engine thread's call engine.do_command(c), noting the SETs
TtlCall ==
    /\ \E c \in TtlCommands :
          LET r == do_command(data, c, now)
          IN /\ data' = r.data
             /\ last_cmd' = c
             /\ last_reply' = r.reply
             /\ writes' = NoteSets(writes, c, r.reply, now)
    /\ UNCHANGED now
    /\ UNCHANGED <<router_vars, codec_vars>>

\* the engine under SET and GET of one key, the clock running
SpecTtl ==
    Init /\ [][TtlCall \/ EngineTick]_vars

\* the call did not return: the engine thread panicked inside do_command
Aborted ==
    [tag |-> "Aborted", some |-> FALSE, bytes |-> <<>>, int |-> 0, items |-> <<>>]

\* do_command(object) runs a digit accumulation that overflows: the start or
\* the stop index of LRANGE in parse_i64, which do_lrange calls once both are
\* non-null bulk strings (the stop only if the start parsed), or the duration
\* of SET .. PX in the loop do_set runs once it is a non-null bulk string
do_command_overflows(object) ==
    LET name == CommandName(object)
        elements == Tail(object.items)
    IN \/ /\ name = B_LRANGE
          /\ Len(elements) >= 3
          /\ IsSomeBulk(elements[2]) /\ IsSomeBulk(elements[3])
          /\ \/ parse_i64(elements[2].bytes).overflow
             \/ /\ parse_i64(elements[2].bytes).some
                /\ parse_i64(elements[3].bytes).overflow
       \/ /\ name = B_SET
          /\ Len(elements) >= 4
          /\ IsSomeBulk(elements[3])
          /\ convert_to_ascii_uppercase(elements[3].bytes) = B_PX
          /\ IsSomeBulk(elements[4])
          /\ ParsePx(elements[4].bytes, Wide(0, 0, 0), FALSE).overflow

D0 ==
    <<48>>

DM1 ==
    <<45, 49>>

D_I64MAX ==
    <<57, 50, 50, 51, 51, 55, 50, 48, 51, 54, 56, 53, 52, 55, 55, 53, 56, 48, 55>>

D_I64MAX1 ==
    <<57, 50, 50, 51, 51, 55, 50, 48, 51, 54, 56, 53, 52, 55, 55, 53, 56, 48, 56>>

D_I64MIN ==
    <<45, 57, 50, 50, 51, 51, 55, 50, 48, 51, 54, 56, 53, 52, 55, 55, 53, 56, 48, 56>>

D_U64FIT ==
    <<49, 56, 52, 52, 54, 55, 52, 52, 48, 55, 51, 55, 48, 56, 56, 56, 56, 56, 56, 56>>

D_U64OVER ==
    <<50, 48, 48, 48, 48, 48, 48, 48, 48, 48, 48, 48, 48, 48, 48, 48, 48, 48, 48, 48>>

D_U64X ==
    <<50, 48, 48, 48, 48, 48, 48, 48, 48, 48, 48, 48, 48, 48, 48, 48, 48, 48, 48, 48, 120>>

\* index and duration arguments around the ends of the 64-bit ranges:
\* 0, -1, i64::MAX, i64::MAX + 1, i64::MIN, a number of twenty digits below
\* u64::MAX, one above it, and one of twenty digits followed by a letter
WideArgs ==
    {D0, DM1, D_I64MAX, D_I64MAX1, D_I64MIN, D_U64FIT, D_U64OVER, D_U64X}

\* the commands of the runs on long numbers: each as the start index and as
\* the stop index of LRANGE and as the duration of SET .. PX, on lists of
\* up to MaxTimedLen elements
WideCommands ==
    {Cmd(B_RPUSH, <<KeyK, ValX>>), Cmd(B_LPOP, <<KeyK>>), Cmd(B_GET, <<KeyK>>)}
    \cup {Cmd(B_LRANGE, <<KeyK, BulkString(s), BulkString(DM1)>>) : s \in WideArgs}
    \cup {Cmd(B_LRANGE, <<KeyK, BulkString(D0), BulkString(e)>>) : e \in WideArgs}
    \cup {Cmd(B_SET, <<KeyK, ValX, BulkString(B_PX), BulkString(m)>>) : m \in WideArgs}

\* do_command returns: in a build without overflow checks every call does
WideCall ==
    /\ last_reply # Aborted
    /\ \E c \in WideCommands :
          LET r == do_command(data, c, now)
          IN /\ WithinListBound(r.data, MaxTimedLen)
             /\ data' = r.data
             /\ last_cmd' = c
             /\ last_reply' = r.reply
    /\ UNCHANGED <<now, writes, router_vars, codec_vars>>

\* do_command panics on an overflowing accumulation, as a build with
\* overflow checks does; the engine thread ends with it
WideAbort ==
    /\ last_reply # Aborted
    /\ \E c \in WideCommands :
          /\ do_command_overflows(c)
          /\ last_cmd' = c
          /\ last_reply' = Aborted
    /\ UNCHANGED <<data, now, writes, router_vars, codec_vars>>

\* the engine under commands with long numbers, the clock running
SpecWide ==
    Init /\ [][WideCall \/ WideAbort \/ EngineTick]_vars

---------------------------------------------------------------------------
(* main.rs: the listener, the connection handlers, the engine thread *)

\* the listener accepts at most this many connections
MaxConnections == 2

\* the bytes a client sends: its commands one after the other
RECURSIVE Pipeline(_)
Pipeline(commands) ==
    IF commands = <<>> THEN <<>>
    ELSE WrittenInFull(serialize(Head(commands))) \o Pipeline(Tail(commands))

\* what a client does to its connection: the chunks its reads return, whether
\* the reads end in an error (a reset) instead of end-of-stream, and what
\* the stream takes of the bytes written to it
Client(chunks, fail, takes) ==
    [chunks |-> chunks, fail |-> fail, takes |-> takes]

\* a stream that takes every byte written to it
TakesAll ==
    [limited |-> FALSE, per |-> 0, room |-> 0]

\* a stream that takes at most `per` bytes in one write and `room` bytes
\* in all, and then fails every write
TakesOnly(per, room) ==
    [limited |-> TRUE, per |-> per, room |-> room]

\* SET k x and GET k pipelined in one chunk; RPUSH k y and then
\* LRANGE k 9223372036854775808 -1, whose start index overflows an i64, with
\* the chunk boundary inside the second command; GET k and then a byte that
\* is no type tag, on a reset connection; SET k y and GET k to a peer that
\* takes one byte per write and five bytes in all (of the reply `+OK\r\n`
\* the write of the payload leaves `K` out, and the reply to GET ends after
\* its `$` with a write error)
Clients ==
    {Client(<<Pipeline(<<Cmd(B_SET, <<KeyK, ValX>>), Cmd(B_GET, <<KeyK>>)>>)>>, FALSE, TakesAll),
     Client(<<Pipeline(<<Cmd(B_RPUSH, <<KeyK, ValY>>)>>) \o <<Star, 52, CR>>,
              <<LF>> \o Pipeline(<<BulkString(B_LRANGE), KeyK,
                                    BulkString(D_I64MAX1), BulkString(DM1)>>)>>, FALSE, TakesAll),
     Client(<<Pipeline(<<Cmd(B_GET, <<KeyK>>)>>), <<Plus>>>>, TRUE, TakesAll),
     Client(<<Pipeline(<<Cmd(B_SET, <<KeyK, ValY>>), Cmd(B_GET, <<KeyK>>)>>)>>, FALSE,
            TakesOnly(1, 5))}

\* Request::new_sender, Request::new_command, Request::new_done; seq numbers
\* the sends on the request channel, nth the commands of one connection
Request(id, kind, object, seq, nth) ==
    [id |-> id, kind |-> kind, object |-> object, seq |-> seq, nth |-> nth]

\* Response::Ok
ResponseOk ==
    [kind |-> "Ok", obj |-> NoObject]

\* Response::Return(res)
ResponseReturn(res) ==
    [kind |-> "Return", obj |-> res]

\* the thread of run_engine is running: no do_command has panicked in it.
\* When it has, rx_req and the map of senders were dropped with the thread.
EngineUp ==
    last_reply # Aborted

\* a Sender for connection id's reply channel exists: in the engine's map, or
\* in a Register request still on the request channel
SinkAlive(id) ==
    \/ id \in DOMAIN senders
    \/ \E i \in 1..Len(rx_req) : rx_req[i].id = id /\ rx_req[i].kind = "Sender"

\* listener.incoming(): connection_id += 1 and thread::spawn(handle_connection)
Accept ==
    /\ connection_id < MaxConnections
    /\ connection_id' = connection_id + 1
    /\ \E c \in Clients :
          handlers' = Append(handlers,
                             [pc |-> "register", io |-> NewIo(c.chunks, c.fail),
                              from |-> NewIo(c.chunks, c.fail), reads |-> 0,
                              writer |-> c.takes, calls |-> <<>>, out |-> <<>>,
                              sent |-> 0, result |-> ""])
    /\ rx_res' = Append(rx_res, <<>>)
    /\ taken' = Append(taken, <<>>)
    /\ applied' = Append(applied, <<>>)
    /\ UNCHANGED <<rx_req, senders, n_sent>>
    /\ UNCHANGED <<engine_vars, codec_vars>>

\* tx_req.send(req) returning Ok
Send(id, kind, object, nth) ==
    /\ EngineUp
    /\ rx_req' = Append(rx_req, Request(id, kind, object, n_sent + 1, nth))
    /\ n_sent' = n_sent + 1

\* tx_req.send(req) returning Err: the receiver was dropped, and the request
\* is dropped with the error
SendFails ==
    /\ ~EngineUp
    /\ UNCHANGED <<rx_req, n_sent>>

\* handle_connection: tx_req.send(Request::new_sender(id, tx_res)), and the
\* return when it fails
HandlerRegister(id) ==
    /\ handlers[id].pc = "register"
    /\ \/ /\ Send(id, "Sender", NoObject, 0)
          /\ handlers' = [handlers EXCEPT ![id].pc = "wait_register"]
       \/ /\ SendFails
          /\ handlers' = [handlers EXCEPT ![id].pc = "exit"]
    /\ UNCHANGED <<connection_id, rx_res, senders, applied, taken>>
    /\ UNCHANGED <<engine_vars, codec_vars>>

\* rx_res.recv() returning Ok: the oldest response leaves the channel
Recv(id) ==
    /\ rx_res[id] # <<>>
    /\ rx_res' = [rx_res EXCEPT ![id] = Tail(@)]
    /\ taken' = [taken EXCEPT ![id] = Append(@, Head(rx_res[id]))]

\* rx_res.recv() returning Err: nothing to take and no Sender left
RecvFails(id) ==
    /\ rx_res[id] = <<>>
    /\ ~SinkAlive(id)
    /\ UNCHANGED <<rx_res, taken>>

\* handle_connection: the rx_res.recv() after the Register request
HandlerRegistered(id) ==
    /\ handlers[id].pc = "wait_register"
    /\ \/ Recv(id) /\ handlers' = [handlers EXCEPT ![id].pc = "loop"]
       \/ RecvFails(id) /\ handlers' = [handlers EXCEPT ![id].pc = "exit"]
    /\ UNCHANGED <<connection_id, rx_req, senders, n_sent, applied>>
    /\ UNCHANGED <<engine_vars, codec_vars>>

\* what the first k calls of stream.read return that return bytes
RECURSIVE FirstReads(_, _)
FirstReads(stream, k) ==
    IF k = 0 \/ stream.chunks = <<>> THEN <<>>
    ELSE <<StreamRead(stream).bytes>> \o FirstReads(StreamRead(stream).stream, k - 1)

\* the stream after k calls of stream.read
RECURSIVE AfterReads(_, _)
AfterReads(stream, k) ==
    IF k = 0 \/ stream.chunks = <<>> THEN stream
    ELSE AfterReads(StreamRead(stream).stream, k - 1)

\* deserialize_object(&mut read_state, &mut stream) started at `from`, up to
\* where it stands once k calls of stream.read have returned: its result, or
\* the ReadState it waits with. A k-th read past the last chunk is the one
\* that returns the end of the stream or its error.
DecodeWith(from, k) ==
    IF Len(FirstReads(from.stream, k)) < k
    THEN deserialize_object(from)
    ELSE deserialize_object([state |-> from.state,
                             stream |-> Stream(FirstReads(from.stream, k), TRUE)])

\* read_request_respond_loop where deserialize_object, started at `from`,
\* stands with k reads returned and outcome r. The k reads were not enough
\* for the object (in the run r on the first k reads, the read that could
\* not be served is the one that fails): it waits in the next stream.read
\* with the ReadState of that moment. Or it has returned, and the loop goes
\* on to tx_req.send(Request::new_command(id, command))? or leaves with the
\* error.
HandlerDecoded(id, from, k, r) ==
    LET x == [state |-> r.io.state, stream |-> AfterReads(from.stream, k)]
    IN IF Len(FirstReads(from.stream, k)) = k /\ ~r.ok /\ r.err = "io error"
       THEN /\ handlers' = [handlers EXCEPT ![id].pc = "reading",
                                            ![id].io = x,
                                            ![id].from = from,
                                            ![id].reads = k]
            /\ UNCHANGED <<rx_req, n_sent>>
       ELSE IF ~r.ok
       THEN /\ handlers' = [handlers EXCEPT ![id].pc = "unregister",
                                            ![id].io = x,
                                            ![id].from = x,
                                            ![id].reads = 0,
                                            ![id].result = r.err]
            /\ UNCHANGED <<rx_req, n_sent>>
       ELSE \/ /\ Send(id, "Command", r.obj, handlers[id].sent + 1)
               /\ handlers' = [handlers EXCEPT ![id].pc = "wait_reply",
                                               ![id].io = x,
                                               ![id].from = x,
                                               ![id].reads = 0,
                                               ![id].sent = @ + 1]
            \/ /\ SendFails
               /\ handlers' = [handlers EXCEPT ![id].pc = "unregister",
                                               ![id].io = x,
                                               ![id].from = x,
                                               ![id].reads = 0,
                                               ![id].result = "send error"]

\* read_request_respond_loop: the loop test and deserialize_object on the
\* bytes the buffer holds, up to its first stream.read or, when it needs
\* none, to its return
HandlerRead(id) ==
    /\ handlers[id].pc = "loop"
    /\ IF ~handlers[id].io.state.can_read_more
       THEN /\ handlers' = [handlers EXCEPT ![id].pc = "unregister", ![id].result = "Ok"]
            /\ UNCHANGED <<rx_req, n_sent>>
       ELSE HandlerDecoded(id, handlers[id].io, 0, DecodeWith(handlers[id].io, 0))
    /\ UNCHANGED <<connection_id, rx_res, senders, applied, taken>>
    /\ UNCHANGED <<engine_vars, codec_vars>>

\* read_more: the stream.read the handler waits in returns (bytes, the end
\* of the stream or an error), and deserialize_object goes on to its next
\* stream.read or to its return
HandlerReadMore(id) ==
    /\ handlers[id].pc = "reading"
    /\ HandlerDecoded(id, handlers[id].from, handlers[id].reads + 1,
                      DecodeWith(handlers[id].from, handlers[id].reads + 1))
    /\ UNCHANGED <<connection_id, rx_res, senders, applied, taken>>
    /\ UNCHANGED <<engine_vars, codec_vars>>

\* the match on the response: the calls it makes on the stream
ResponseCalls(res) ==
    IF res.kind = "Ok" THEN <<[all |-> TRUE, bytes |-> <<Plus>> \o B_OK \o CRLF]>>
    ELSE serialize(res.obj)

\* read_request_respond_loop going on to the next command without the
\* rx_res.recv() for the one it has sent
HandlerRespond_no_wait(id) ==
    /\ handlers[id].pc = "wait_reply"
    /\ handlers' = [handlers EXCEPT ![id].pc = "loop"]
    /\ UNCHANGED <<connection_id, rx_req, rx_res, senders, n_sent, applied, taken>>
    /\ UNCHANGED <<engine_vars, codec_vars>>

\* read_request_respond_loop: rx_res.recv()? returns the response, which
\* the match goes on to write, or its error
HandlerRespond(id) ==
    /\ handlers[id].pc = "wait_reply"
    /\ \/ /\ Recv(id)
          /\ handlers' = [handlers EXCEPT ![id].pc = "writing",
                                          ![id].calls = ResponseCalls(Head(rx_res[id]))]
       \/ /\ RecvFails(id)
          /\ handlers' = [handlers EXCEPT ![id].pc = "unregister",
                                          ![id].result = "recv error"]
    /\ UNCHANGED <<connection_id, rx_req, senders, n_sent, applied>>
    /\ UNCHANGED <<engine_vars, codec_vars>>

\* read_request_respond_loop: the write() the handler stands in, inside the
\* match on the response, returns. With Err the loop is left (`?`), and so
\* it is when a write() of write_all took nothing (WriteZero); the bytes
\* the stream took before stay written. When the stream took a part,
\* write_all goes on to a write() of the rest, and a stream.write is over.
\* After the last call the loop goes on to its test.
HandlerWrite(id) ==
    /\ handlers[id].pc = "writing"
    /\ LET call == Head(handlers[id].calls)
           w == StreamWrite(handlers[id].writer, call.bytes)
           left == SubSeq(call.bytes, w.n + 1, Len(call.bytes))
           failed == ~w.ok \/ (call.all /\ w.n = 0)
           rest == IF call.all /\ left # <<>>
                   THEN <<[all |-> TRUE, bytes |-> left]>> \o Tail(handlers[id].calls)
                   ELSE Tail(handlers[id].calls)
       IN handlers' = [handlers EXCEPT
             ![id].out = @ \o SubSeq(call.bytes, 1, w.n),
             ![id].writer = w.stream,
             ![id].calls = IF failed THEN <<>> ELSE rest,
             ![id].pc = IF failed THEN "unregister"
                        ELSE IF rest = <<>> THEN "loop" ELSE "writing",
             ![id].result = IF failed THEN "write error" ELSE @]
    /\ UNCHANGED <<connection_id, rx_req, rx_res, senders, n_sent, applied, taken>>
    /\ UNCHANGED <<engine_vars, codec_vars>>

\* handle_connection: tx_req.send(Request::new_done(id)), and the return
\* when it fails
HandlerUnregister(id) ==
    /\ handlers[id].pc = "unregister"
    /\ \/ /\ Send(id, "Done", NoObject, 0)
          /\ handlers' = [handlers EXCEPT ![id].pc = "wait_unregister"]
       \/ /\ SendFails
          /\ handlers' = [handlers EXCEPT ![id].pc = "exit"]
    /\ UNCHANGED <<connection_id, rx_res, senders, applied, taken>>
    /\ UNCHANGED <<engine_vars, codec_vars>>

\* handle_connection: the rx_res.recv() after the Done request, and the return
HandlerExit(id) ==
    /\ handlers[id].pc = "wait_unregister"
    /\ Recv(id) \/ RecvFails(id)
    /\ handlers' = [handlers EXCEPT ![id].pc = "exit"]
    /\ UNCHANGED <<connection_id, rx_req, senders, n_sent, applied>>
    /\ UNCHANGED <<engine_vars, codec_vars>>

\* `for req in rx_req` taking the newest request instead of the oldest
Dequeue_newest(q) ==
    [req |-> q[Len(q)], rest |-> SubSeq(q, 1, Len(q) - 1)]

\* `for req in rx_req`: the oldest request leaves the channel
Dequeue(q) ==
    [req |-> Head(q), rest |-> Tail(q)]

\* run_engine's match on req.value, do_command returning: the response, the
\* map of senders and the store after it
Handle(req, snd, d, t) ==
    IF req.kind = "Command"
    THEN [res |-> ResponseReturn(do_command(d, req.object, t).reply),
          senders |-> snd,
          data |-> do_command(d, req.object, t).data]
    ELSE IF req.kind = "Sender"
    THEN [res |-> ResponseOk, senders |-> Insert(snd, req.id, req.id), data |-> d]
    ELSE [res |-> ResponseOk, senders |-> Remove(snd, req.id), data |-> d]

\* run_engine sending the response on the sink registered first
Respond_first_sink(chans, snd, id, res) ==
    IF id \in DOMAIN snd
    THEN [chans EXCEPT ![snd[CHOOSE j \in DOMAIN snd : \A k \in DOMAIN snd : j <= k]] =
             Append(@, res)]
    ELSE chans

\* run_engine's response sent twice on the sink
Respond_twice(chans, snd, id, res) ==
    IF id \in DOMAIN snd
    THEN [chans EXCEPT ![snd[id]] = Append(Append(@, res), res)]
    ELSE chans

\* run_engine: `if let Some(tx_res) = senders.get(&req.id) { tx_res.send(res) }`
Respond(chans, snd, id, res) ==
    IF id \in DOMAIN snd
    THEN [chans EXCEPT ![snd[id]] = Append(@, res)]
    ELSE chans

\* run_engine: one iteration of the request loop, do_command returning (an
\* overflowing accumulation wraps, as in a build without overflow checks)
EngineStep ==
    /\ EngineUp
    /\ rx_req # <<>>
    /\ LET q == Dequeue(rx_req)
           h == Handle(q.req, senders, data, now)
       IN /\ rx_req' = q.rest
          /\ senders' = h.senders
          /\ data' = h.data
          /\ rx_res' = Respond(rx_res, h.senders, q.req.id, h.res)
          /\ applied' = IF q.req.kind = "Command"
                        THEN [applied EXCEPT ![q.req.id] =
                                 Append(@, [nth |-> q.req.nth, res |-> h.res])]
                        ELSE applied
    /\ UNCHANGED <<connection_id, handlers, n_sent, taken>>
    /\ UNCHANGED <<now, last_cmd, last_reply, writes>>
    /\ UNCHANGED codec_vars

\* run_engine: do_command panics on an overflowing accumulation, as in a
\* build with overflow checks. The thread unwinds out of run_engine: the
\* receiver rx_req goes with the requests still in it, and so do the map of
\* senders and the engine (no mutation precedes the accumulations, and the
\* store is never read again).
EnginePanic ==
    /\ EngineUp
    /\ rx_req # <<>>
    /\ Dequeue(rx_req).req.kind = "Command"
    /\ do_command_overflows(Dequeue(rx_req).req.object)
    /\ rx_req' = <<>>
    /\ senders' = <<>>
    /\ last_reply' = Aborted
    /\ UNCHANGED <<connection_id, handlers, rx_res, n_sent, applied, taken>>
    /\ UNCHANGED <<data, now, last_cmd, writes>>
    /\ UNCHANGED codec_vars

Next ==
    \/ Accept
    \/ \E id \in 1..connection_id : HandlerRegister(id)
    \/ \E id \in 1..connection_id : HandlerRegistered(id)
    \/ \E id \in 1..connection_id : HandlerRead(id)
    \/ \E id \in 1..connection_id : HandlerReadMore(id)
    \/ \E id \in 1..connection_id : HandlerRespond(id)
    \/ \E id \in 1..connection_id : HandlerWrite(id)
    \/ \E id \in 1..connection_id : HandlerUnregister(id)
    \/ \E id \in 1..connection_id : HandlerExit(id)
    \/ EngineStep
    \/ EnginePanic

Spec ==
    Init /\ [][Next]_vars

\* the threads keep running and no stream.read waits for ever: the engine
\* thread takes a waiting request, and a handler thread that can take its
\* next step takes it. Weak fairness is on the steps of a handler outside
\* the top of its read loop; for the engine's steps and for the steps in
\* deserialize_object (the handler at pc "loop" or "reading", where
\* HandlerRead or HandlerReadMore can always be taken) it is written out.
SpecFair ==
    /\ Spec
    /\ []<>(~(EngineUp /\ rx_req # <<>>)) \/ []<><<EngineStep \/ EnginePanic>>_vars
    /\ \A id \in 1..MaxConnections :
          /\ WF_vars(/\ id <= connection_id
                     /\ \/ HandlerRegister(id)
                        \/ HandlerRegistered(id)
                        \/ HandlerRespond(id)
                        \/ HandlerWrite(id)
                        \/ HandlerUnregister(id)
                        \/ HandlerExit(id))
          /\ \/ []<>(~(id <= connection_id /\ handlers[id].pc \in {"loop", "reading"}))
             \/ []<><<id <= connection_id /\ (HandlerRead(id) \/ HandlerReadMore(id))>>_vars

---------------------------------------------------------------------------
(* The codec alone: serialize Objects to a byte source that delivers them   *)
(* in chunks, deserialize them with one ReadState, serialize the results.  *)

\* the byte source splits its bytes at no more than this many places (or at
\* every byte)
MaxCuts == 2

\* b"OK", b"ERR"
B_ERR ==
    <<69, 82, 82>>

\* Objects the decoder can produce: integers, non-null bulk strings (empty,
\* and holding CR LF and tag bytes), arrays of them, nested
DecodableObjects ==
    {Integer(0), Integer(0 - 12), Integer(305),
     BulkString(<<>>), BulkString(<<120>>), BulkString(<<13, 10, 36>>),
     Array(<<>>), Array(<<BulkString(<<120>>), Integer(7)>>),
     Array(<<Array(<<BulkString(<<121>>)>>)>>)}

\* well-formed Objects of every variant, of depth at most 2
WellFormedObjects ==
    DecodableObjects
    \cup {NullBulk, SimpleString(B_OK), SimpleString(<<>>), Error(B_ERR),
          Array(<<NullBulk>>), Array(<<SimpleString(B_OK), Integer(1)>>)}

\* the pairs of Objects sent back to back
ObjectPairs ==
    {<<a, b>> : a \in {Integer(0 - 12), BulkString(<<>>), BulkString(<<13, 10, 36>>),
                       Array(<<>>), Array(<<BulkString(<<120>>), Integer(7)>>)},
                b \in {Integer(305), BulkString(<<120>>), Array(<<Array(<<BulkString(<<121>>)>>)>>)}}

\* digit strings: "0", "7", "12" and with a leading zero "07", "00"
CanonicalDigits ==
    {<<48>>, <<55>>, <<49, 50>>}

PaddedDigits ==
    {<<48, 55>>, <<48, 48>>}

\* integer := ':' sign? digits CRLF
IntegerTexts(signs, digits) ==
    {<<Colon>> \o sg \o ds \o CRLF : sg \in signs, ds \in digits}

\* bulk := '$' length CRLF body CRLF, the length written with pad zeros in front
BulkText(pad, body) ==
    <<Dollar>> \o pad \o DecDigits(Len(body)) \o CRLF \o body \o CRLF

\* array := '*' count CRLF object{count}, the count written with pad zeros in front
ArrayText(pad, texts) ==
    <<Star>> \o pad \o DecDigits(Len(texts)) \o CRLF
        \o (IF Len(texts) = 0 THEN <<>>
            ELSE IF Len(texts) = 1 THEN texts[1]
            ELSE texts[1] \o texts[2])

\* '$' "-1" CRLF
NullBulkText ==
    <<Dollar, Minus, 49>> \o CRLF

BulkBodies ==
    {<<>>, <<120>>, <<13, 10>>}

\* the grammar's objects written the one way serialize writes them: no '+'
\* sign, no leading zero, no negative zero, no null bulk
CanonicalTexts ==
    LET ints == IntegerTexts({<<>>}, CanonicalDigits)
                \cup IntegerTexts({<<Minus>>}, CanonicalDigits \ {<<48>>})
        bulks == {BulkText(<<>>, b) : b \in BulkBodies}
    IN ints \cup bulks
       \cup {ArrayText(<<>>, <<>>)}
       \cup {ArrayText(<<>>, <<t>>) : t \in ints \cup bulks}
       \cup {ArrayText(<<>>, <<t, u>>) : t \in bulks, u \in ints}

\* well-formed objects of the decoder grammar, canonical or not
GrammarTexts ==
    LET ints == IntegerTexts({<<>>, <<Plus>>, <<Minus>>}, CanonicalDigits \cup PaddedDigits)
        bulks == {BulkText(pad, b) : pad \in {<<>>, <<48>>}, b \in BulkBodies}
                 \cup {NullBulkText}
    IN CanonicalTexts \cup ints \cup bulks
       \cup {ArrayText(<<48>>, <<t>>) : t \in bulks}
       \cup {ArrayText(<<>>, <<NullBulkText, t>>) : t \in ints}

RECURSIVE CutsUpTo(_, _)
\* the sets of at most k places between the n bytes
CutsUpTo(n, k) ==
    IF k = 0 THEN {{}}
    ELSE LET fewer == CutsUpTo(n, k - 1)
         IN fewer \cup {cs \cup {c} : cs \in fewer, c \in 1..(n - 1)}

\* the ways the byte source splits n bytes into reads: at most MaxCuts
\* places, or one byte per read
CutSets(n) ==
    CutsUpTo(n, MaxCuts) \cup {1..(n - 1)}

RECURSIVE ChunksFrom(_, _, _)
\* the non-empty chunks of bytes w after position p, split at the places cs
ChunksFrom(w, p, cs) ==
    IF p >= Len(w) THEN <<>>
    ELSE LET later == {c \in cs : c > p}
             q == IF later = {} THEN Len(w)
                  ELSE CHOOSE c \in later : \A c2 \in later : c <= c2
         IN <<SubSeq(w, p + 1, q)>> \o ChunksFrom(w, q, cs)

\* the number of deserialize_object calls of the run
Expected ==
    IF objs = <<>> THEN 1 ELSE Len(objs)

\* the deserialize_object calls are over: all made, or one failed
DecodingOver ==
    /\ phase.at \in {"deserialize", "reserialize"}
    /\ \/ Len(decoded) = Expected
       \/ decoded # <<>> /\ ~decoded[Len(decoded)].ok

\* the run is over: every decoded Object was serialized again
CodecDone ==
    /\ DecodingOver
    /\ \/ \A i \in 1..Len(decoded) : ~decoded[i].ok
       \/ phase.at = "reserialize" /\ phase.n = Len(SelectSeq(decoded, LAMBDA r : r.ok))

\* serialize(&mut stream, &objs[n]) on a byte vector, which takes every byte
CodecSerialize ==
    /\ phase.at = "serialize"
    /\ phase.n < Len(objs)
    /\ wire' = wire \o WrittenInFull(serialize(objs[phase.n + 1]))
    /\ phase' = [phase EXCEPT !.n = @ + 1]
    /\ UNCHANGED <<objs, cuts, io, decoded, sink>>
    /\ UNCHANGED <<router_vars, engine_vars>>

\* the bytes become the byte source of a new ReadState, split into reads
CodecConnect ==
    /\ phase.at = "serialize"
    /\ phase.n = Len(objs)
    /\ \E cs \in CutSets(Len(wire)) :
          /\ cuts' = cs
          /\ io' = NewIo(ChunksFrom(wire, 0, cs), FALSE)
    /\ phase' = [at |-> "deserialize", n |-> 0]
    /\ UNCHANGED <<objs, wire, decoded, sink>>
    /\ UNCHANGED <<router_vars, engine_vars>>

\* deserialize_object(&mut state, &mut stream)
CodecDeserialize ==
    /\ phase.at = "deserialize"
    /\ ~DecodingOver
    /\ LET r == deserialize_object(io)
       IN /\ decoded' = Append(decoded, [ok |-> r.ok, obj |-> r.obj])
          /\ io' = r.io
    /\ phase' = [phase EXCEPT !.n = @ + 1]
    /\ UNCHANGED <<objs, cuts, wire, sink>>
    /\ UNCHANGED <<router_vars, engine_vars>>

\* serialize(&mut sink, &object) of the next decoded Object, on a byte
\* vector as well
CodecReserialize ==
    /\ DecodingOver
    /\ LET m == IF phase.at = "reserialize" THEN phase.n ELSE 0
           oks == SelectSeq(decoded, LAMBDA r : r.ok)
       IN /\ m < Len(oks)
          /\ sink' = sink \o WrittenInFull(serialize(oks[m + 1].obj))
          /\ phase' = [at |-> "reserialize", n |-> m + 1]
    /\ UNCHANGED <<objs, cuts, wire, io, decoded>>
    /\ UNCHANGED <<router_vars, engine_vars>>

CodecInit ==
    /\ RouterIdle
    /\ EngineIdle
    /\ phase = [at |-> "serialize", n |-> 0]
    /\ \/ /\ objs \in {<<o>> : o \in WellFormedObjects} \cup ObjectPairs
          /\ wire = <<>>
       \/ /\ objs = <<>>
          /\ wire \in GrammarTexts
    /\ cuts = {}
    /\ io = NewIo(<<>>, FALSE)
    /\ decoded = <<>>
    /\ sink = <<>>

SpecCodec ==
    CodecInit /\
    [][CodecSerialize \/ CodecConnect \/ CodecDeserialize \/ CodecReserialize]_vars

---------------------------------------------------------------------------
(* Claims about the codec *)

\* Ok(object) as the codec run records it
Ok(object) ==
    [ok |-> TRUE, obj |-> object]

\* C6: for every well-formed Object o of bounded depth (SimpleString, Error,
\* Integer, BulkString with a payload or null, Array of such),
\* deserialize_object on the bytes serialize(o) wrote returns o.
C6_DecodeOfEncode ==
    (DecodingOver /\ Len(objs) = 1) => decoded = <<Ok(objs[1])>>

\* C7: for every byte string s that is one well-formed object of the decoder
\* grammar (bulk with a length, null bulk, array with a count, integer with
\* an optional sign and one or more digits), serializing the Object that
\* deserialize_object returns for s writes bytes identical to s.
C7_EncodeOfDecodeAnyText ==
    (CodecDone /\ objs = <<>>) => (decoded[1].ok /\ sink = wire)

\* the round trip on the strings of the grammar that have serialize's own
\* form (no '+' sign, no leading zero in a number, length or count, no "-0")
\* and that deserialize_object accepts (not the null bulk)
RoundTripCanonical ==
    (CodecDone /\ objs = <<>> /\ wire \in CanonicalTexts)
        => (decoded[1].ok /\ sink = wire)

\* an array of a bulk string and a negative integer, read in three chunks,
\* was decoded and serialized back to the same bytes
RoundTripCanonical_Reached ==
    /\ CodecDone
    /\ objs = <<>>
    /\ wire = ArrayText(<<>>, <<BulkText(<<>>, <<13, 10>>), <<Colon, Minus, 55>> \o CRLF>>)
    /\ Cardinality(cuts) = 2
    /\ decoded[1].ok
    /\ sink = wire

\* C8: for two decodable Objects a and b, with serialize(a) followed by
\* serialize(b) delivered in any sequence of non-empty read chunks, two
\* successive deserialize_object calls on one ReadState return a, then b.
C8_Framing ==
    (DecodingOver /\ Len(objs) = 2) => decoded = <<Ok(objs[1]), Ok(objs[2])>>

\* C8 witness: the pair was delivered one byte per read and both Objects
\* were returned; the first holds CR LF in its payload.
C8_Witness ==
    /\ DecodingOver
    /\ objs = <<BulkString(<<13, 10, 36>>), Array(<<Array(<<BulkString(<<121>>)>>)>>)>>
    /\ cuts = 1..(Len(wire) - 1)
    /\ Len(io.stream.chunks) = 0
    /\ decoded = <<Ok(objs[1]), Ok(objs[2])>>

---------------------------------------------------------------------------
(* Claims about the engine *)

\* the entry of key k in store d: <<entry>>, or <<>> when there is none
EntryAt(d, k) ==
    IF k \in DOMAIN d THEN <<d[k]>> ELSE <<>>

\* command c is SET, RPUSH, LPUSH or LPOP with key argument k
IsWriteTo(c, k) ==
    IsWrite(c) /\ c.items[2] = k

\* C3: an entry of the store is created, changed or replaced only by a SET,
\* RPUSH, LPUSH or LPOP command whose key argument is that entry's key; any
\* other command, or a command on another key, leaves its value, creation
\* time and TTL as they were.
C3_FrameEffect ==
    [][\A k \in (DOMAIN data) \cup (DOMAIN data') :
          EntryAt(data', k) # EntryAt(data, k) => IsWriteTo(last_cmd', k)]_vars

\* C3 witness: RPUSH has extended the list of KeyK created earlier, while the
\* entry of KeyJ is in the store.
C3_Witness ==
    /\ last_cmd = Cmd(B_RPUSH, <<KeyK, ValX>>)
    /\ last_reply = Integer(2)
    /\ KeyJ \in DOMAIN data
    /\ data[KeyK].created_at < now

\* C4: whenever do_command returns an Error object, the store after the call
\* is the store before it.
C4_ErrorLeavesStore ==
    [][IsError(last_reply') => data' = data]_vars

\* C4 witness: RPUSH on a key that holds a string was answered with an Error,
\* and so was a SET with a PX duration that is no number.
C4_Witness ==
    /\ KeyK \in DOMAIN data
    /\ \/ /\ last_cmd = Cmd(B_RPUSH, <<KeyK, ValX>>)
          /\ last_reply = Error(MsgNotAnArray)
       \/ /\ last_cmd = Cmd(B_SET, <<KeyK, ValY, BulkString(B_PX), BulkString(<<49, 120>>)>>)
          /\ last_reply = Error(MsgInvalidPx)
          /\ data[KeyK].value = ValX

\* the bytes are one or more ASCII digits '0'..'9'
AllDigits(s) ==
    s # <<>> /\ \A i \in 1..Len(s) : 48 <= s[i] /\ s[i] <= 57

\* C5: after SET k v PX m, for every millisecond count m and with no later
\* write to k, GET k returns v while less than m milliseconds have elapsed
\* since the SET, and the null bulk string once more than m have.
C5_TtlAfterSetPx ==
    [][\A k \in DOMAIN writes :
          (/\ now' = now
           /\ last_cmd' = Cmd(B_GET, <<k>>)
           /\ writes[k].px
           /\ AllDigits(writes[k].cmd.items[5].bytes))
          => LET m == DecValue(writes[k].cmd.items[5].bytes)
                 v == writes[k].cmd.items[3]
                 elapsed == now - writes[k].at
             IN /\ elapsed < m * NanosPerMilli => last_reply' = v
                /\ elapsed > m * NanosPerMilli => last_reply' = NullBulk]_vars

\* the bytes are (+|-)? followed by one or more digits
IsIntText(s) ==
    /\ s # <<>>
    /\ IF s[1] = 43 \/ s[1] = 45 THEN AllDigits(Tail(s)) ELSE AllDigits(s)

\* the signed integer such bytes denote
IntOfText(s) ==
    IF s[1] = 45 THEN 0 - DecValue(Tail(s))
    ELSE IF s[1] = 43 THEN DecValue(Tail(s))
    ELSE DecValue(s)

\* a negative index i of a list of n elements re-based to max(0, n + i)
Rebase(n, i) ==
    IF i >= 0 THEN i ELSE IF n + i > 0 THEN n + i ELSE 0

\* the slice the LRANGE index rules select from list L
RangeOf(L, start, stop) ==
    LET n == Len(L)
        s == Rebase(n, start)
        e == Rebase(n, stop)
        last == IF e > n - 1 THEN n - 1 ELSE e
    IN IF s >= n \/ s > e THEN <<>>
       ELSE [j \in 1..(last - s + 1) |-> L[s + j]]

\* command c is LRANGE key start stop with both indices integers, on a key
\* that holds a list in store d
IsLrangeOnList(c, d) ==
    /\ CommandName(c) = B_LRANGE
    /\ Len(c.items) = 4
    /\ IsSomeBulk(c.items[3]) /\ IsIntText(c.items[3].bytes)
    /\ IsSomeBulk(c.items[4]) /\ IsIntText(c.items[4].bytes)
    /\ c.items[2] \in DOMAIN d
    /\ IsArray(d[c.items[2]].value)

\* C9: for a stored list L of n elements and signed integers start, stop,
\* LRANGE replies the Array of the inclusive slice the index rules select
\* (negative index re-based to max(0, n + i), empty when start >= n or
\* start > stop, stop clamped to n - 1); every element of the reply is an
\* element of L, and the store is left as it was.
C9_LrangeSlice ==
    [][IsLrangeOnList(last_cmd', data)
          => LET L == data[last_cmd'.items[2]].value.items
                 start == IntOfText(last_cmd'.items[3].bytes)
                 stop == IntOfText(last_cmd'.items[4].bytes)
             IN /\ last_reply' = Array(RangeOf(L, start, stop))
                /\ \A i \in 1..Len(last_reply'.items) :
                      \E j \in 1..Len(L) : last_reply'.items[i] = L[j]
                /\ data' = data]_vars

\* C9 witness: LRANGE k -2 5 on a list of three elements replied its last two.
C9_Witness ==
    /\ last_cmd = Cmd(B_LRANGE, <<KeyK, BulkString(<<45, 50>>), BulkString(<<53>>)>>)
    /\ KeyK \in DOMAIN data
    /\ IsArray(data[KeyK].value)
    /\ Len(data[KeyK].value.items) = 3
    /\ last_reply = Array(SubSeq(data[KeyK].value.items, 2, 3))

\* the sequence in reverse order
Reversed(s) ==
    [i \in 1..Len(s) |-> s[Len(s) + 1 - i]]

\* command c is RPUSH or LPUSH with a key and at least one value, on a key
\* that is missing or holds a list in store d
IsPushOnList(c, d) ==
    /\ CommandName(c) \in {B_RPUSH, B_LPUSH}
    /\ Len(c.items) >= 3
    /\ c.items[2] \in DOMAIN d => IsArray(d[c.items[2]].value)

\* C10: RPUSH k v1..vm on a key that is missing (the empty list) or holds a
\* list appends v1..vm in argument order, LPUSH k v1..vm prepends each value
\* in turn (the list then starts vm, ..., v1), and each replies the Integer
\* length of the list after the command.
C10_PushReference ==
    [][IsPushOnList(last_cmd', data)
          => LET k == last_cmd'.items[2]
                 L == IF k \in DOMAIN data THEN data[k].value.items ELSE <<>>
                 vs == SubSeq(last_cmd'.items, 3, Len(last_cmd'.items))
                 R == IF CommandName(last_cmd') = B_RPUSH
                      THEN L \o vs ELSE Reversed(vs) \o L
             IN /\ k \in DOMAIN data'
                /\ data'[k].value = Array(R)
                /\ last_reply' = Integer(Len(R))]_vars

\* C10 witness: LPUSH k x y on the list <<z>> left the list <<y, x, z>>, or
\* RPUSH k y z on the list <<x>> left <<x, y, z>>.
C10_Witness ==
    /\ KeyK \in DOMAIN data
    /\ \/ /\ last_cmd = Cmd(B_LPUSH, <<KeyK, ValX, ValY>>)
          /\ data[KeyK].value = Array(<<ValY, ValX, ValZ>>)
          /\ last_reply = Integer(3)
       \/ /\ last_cmd = Cmd(B_RPUSH, <<KeyK, ValY, ValZ>>)
          /\ data[KeyK].value = Array(<<ValX, ValY, ValZ>>)
          /\ last_reply = Integer(3)

\* the command is LPOP with a key
IsLpop(c) ==
    CommandName(c) = B_LPOP /\ Len(c.items) >= 2

\* C11: LPOP k on a key holding a non-empty list removes exactly the head,
\* replies with it and leaves the other elements in their order, so that
\* LLEN k is one less; on a key that is missing, holds an empty list or holds
\* no list it replies the null bulk string and leaves the store unchanged.
C11_LpopHead ==
    [][(now' = now /\ IsLpop(last_cmd'))
          => LET k == last_cmd'.items[2]
             IN IF k \in DOMAIN data /\ IsArray(data[k].value)
                   /\ data[k].value.items # <<>>
                THEN /\ last_reply' = Head(data[k].value.items)
                     /\ data' = [data EXCEPT ![k].value = Array(Tail(data[k].value.items))]
                     /\ do_llen(data', <<k>>).reply
                           = Integer(do_llen(data, <<k>>).reply.int - 1)
                ELSE /\ last_reply' = NullBulk
                     /\ data' = data]_vars

\* C11 witness: LPOP took y off the list y, x and left x
C11_Witness ==
    /\ last_cmd = Cmd(B_LPOP, <<KeyK>>)
    /\ last_reply = ValY
    /\ KeyK \in DOMAIN data
    /\ data[KeyK].value = Array(<<ValX>>)

\* C12: RPUSH or LPUSH with at least one value on a key whose entry holds a
\* value that is no Array replies with an Error and leaves the entry (value,
\* creation time, TTL) as it was.
C12_PushOnNonList ==
    [][(/\ now' = now
        /\ CommandName(last_cmd') \in {B_RPUSH, B_LPUSH}
        /\ Len(last_cmd'.items) >= 3
        /\ last_cmd'.items[2] \in DOMAIN data
        /\ ~IsArray(data[last_cmd'.items[2]].value))
          => /\ IsError(last_reply')
             /\ last_cmd'.items[2] \in DOMAIN data'
             /\ data'[last_cmd'.items[2]] = data[last_cmd'.items[2]]]_vars

\* C12 witness: LPUSH on a key that holds a string with a TTL was answered
\* with the Error and the string is still there
C12_Witness ==
    /\ last_cmd = Cmd(B_LPUSH, <<KeyK, ValX, ValY>>)
    /\ last_reply = Error(MsgNotAnArray)
    /\ KeyK \in DOMAIN data
    /\ data[KeyK].value = ValX
    /\ data[KeyK].duration.some

\* C17: SET k v PX d with d made only of the ASCII digits '0' to '9' replies
\* OK and stores k with a TTL of the decimal value of d milliseconds; if d
\* contains a byte that is no ASCII digit the reply is the Error `Invalid PX
\* duration` and the store is unchanged.
C17_SetPxDuration ==
    [][(now' = now /\ IsSetPx(last_cmd'))
          => LET k == last_cmd'.items[2]
                 d == last_cmd'.items[5].bytes
             IN IF \A i \in 1..Len(d) : 48 <= d[i] /\ d[i] <= 57
                THEN /\ last_reply' = SimpleString(B_OK)
                     /\ k \in DOMAIN data'
                     /\ data'[k].value = last_cmd'.items[3]
                     /\ data'[k].duration = SomeDuration(WideOf(DecValue(d)))
                ELSE /\ last_reply' = Error(MsgInvalidPx)
                     /\ data' = data]_vars

\* command c names a recognised command and has a number of arguments
\* outside the arity the command table gives it
WrongArity(c) ==
    LET name == CommandName(c)
        n == Len(c.items) - 1
    IN \/ name = B_PING /\ n # 0
       \/ name \in {B_ECHO, B_GET, B_LLEN, B_LPOP} /\ n # 1
       \/ name = B_SET /\ n \notin {2, 4}
       \/ name = B_LRANGE /\ n # 3
       \/ name \in {B_RPUSH, B_LPUSH} /\ n < 2

\* C18: every recognised command invoked with a number of arguments outside
\* its arity replies with an Error object and leaves the store unchanged.
C18_ArityError ==
    [][WrongArity(last_cmd') => (IsError(last_reply') /\ data' = data)]_vars

\* C19: do_command returns an Object for every command, without aborting:
\* the digit accumulations of the LRANGE indices (i64) and of the PX duration
\* (u64) never overflow their width, whatever the length of the digit string.
C19_NoAbortNoOverflow ==
    last_cmd # NoObject => (last_reply # Aborted /\ ~do_command_overflows(last_cmd))

\* the store with every TTL taken off
NoTtl(d) ==
    [k \in DOMAIN d |-> [d[k] EXCEPT !.duration = NoDuration]]

\* key k holds a list under a TTL that has run out
ExpiredList(k) ==
    /\ k \in DOMAIN data
    /\ IsArray(data[k].value)
    /\ is_expired(data[k], now)

\* C20: expiration is observed only by GET: for a key that holds a list
\* stored with SET .. PX m, once more than m milliseconds have elapsed GET
\* replies the null bulk string, while LLEN, LRANGE and LPOP answer from the
\* stored list exactly as if no TTL were set, and LPOP still removes its head.
C20_OnlyGetExpires ==
    [][\A k \in DOMAIN data :
          (/\ now' = now
           /\ ExpiredList(k)
           /\ CommandName(last_cmd') \in {B_GET, B_LLEN, B_LRANGE, B_LPOP}
           /\ Len(last_cmd'.items) >= 2
           /\ last_cmd'.items[2] = k)
          => LET name == CommandName(last_cmd')
                 items == data[k].value.items
                 plain == do_command(NoTtl(data), last_cmd', now)
             IN IF name = B_GET /\ Len(last_cmd'.items) = 2
                THEN last_reply' = NullBulk /\ data' = data
                ELSE /\ last_reply' = plain.reply
                     /\ NoTtl(data') = plain.data
                     /\ data'[k].duration = data[k].duration
                     /\ name = B_LLEN => last_reply' = Integer(Len(items))
                     /\ (name = B_LPOP /\ items # <<>>)
                           => /\ last_reply' = Head(items)
                              /\ data'[k].value = Array(Tail(items))]_vars

\* C20 witness: the list stored under KeyK with a TTL of one millisecond has
\* outlived it, and LPOP has just taken its head.
C20_Witness ==
    /\ last_cmd = Cmd(B_LPOP, <<KeyK>>)
    /\ last_reply = ValY
    /\ KeyK \in DOMAIN data
    /\ data[KeyK].value = Array(<<>>)
    /\ data[KeyK].duration = SomeDuration(WideOf(1))
    /\ is_expired(data[KeyK], now)

\* C23: SET replaces the whole entry of its key, TTL included: when the
\* latest SET of k had no PX, GET k returns its value for every elapsed time,
\* whatever TTL an earlier SET gave the key; when it had PX m, the m
\* milliseconds count from that latest SET.
C23_SetReplacesEntry ==
    [][\A k \in DOMAIN writes :
          (now' = now /\ last_cmd' = Cmd(B_GET, <<k>>))
          => LET latest == writes[k][1]
                 v == latest.cmd.items[3]
                 elapsed == now - latest.at
             IN IF IsSetPx(latest.cmd)
                THEN LET m == DecValue(latest.cmd.items[5].bytes)
                     IN /\ elapsed < m * NanosPerMilli => last_reply' = v
                        /\ elapsed > m * NanosPerMilli => last_reply' = NullBulk
                ELSE last_reply' = v]_vars

\* C23 witness: KeyK was SET with a TTL of 1 ms at time 0 and SET again
\* without PX; more than 1 ms after the first SET, GET returns the new value.
C23_Witness ==
    /\ last_cmd = Cmd(B_GET, <<KeyK>>)
    /\ last_reply = ValY
    /\ KeyK \in DOMAIN writes
    /\ Len(writes[KeyK]) = 2
    /\ writes[KeyK][1].cmd = Cmd(B_SET, <<KeyK, ValY>>)
    /\ writes[KeyK][2] = [cmd |-> Cmd(B_SET, <<KeyK, ValX, BulkString(B_PX), BulkString(<<49>>)>>),
                          at |-> 0]
    /\ now > NanosPerMilli

\* key k holds a bulk string under a TTL that has run out
ExpiredString(k) ==
    /\ k \in DOMAIN data
    /\ IsSomeBulk(data[k].value)
    /\ is_expired(data[k], now)

\* command c is a SET that names key k and a value
IsSetOf(c, k) ==
    CommandName(c) = B_SET /\ Len(c.items) >= 3 /\ c.items[2] = k

\* C24: no read removes an expired entry: once the TTL of a key set to a bulk
\* string has run out, the entry stays as it is through every step but a SET
\* of that key, GET k replies the null bulk string, RPUSH k x and LPUSH k x
\* reply the Error `object at key is not an array` and create no list, and
\* the key holds a list again only after a SET of an Array value.
C24_ExpiredEntryStays ==
    [][\A k \in DOMAIN data :
          ExpiredString(k)
          => IF now' = now /\ IsSetOf(last_cmd', k)
             THEN IsArray(data'[k].value)
                     => IsArray(last_cmd'.items[3]) /\ last_reply' = SimpleString(B_OK)
             ELSE /\ k \in DOMAIN data'
                  /\ data'[k] = data[k]
                  /\ (now' = now /\ last_cmd' = Cmd(B_GET, <<k>>))
                        => last_reply' = NullBulk
                  /\ (/\ now' = now
                      /\ CommandName(last_cmd') \in {B_RPUSH, B_LPUSH}
                      /\ Len(last_cmd'.items) >= 3
                      /\ last_cmd'.items[2] = k)
                        => last_reply' = Error(MsgNotAnArray)]_vars

\* C24 witness: KeyK was set to x with a TTL that has run out, and an LPUSH
\* on it was answered with the Error while the entry still holds x.
C24_Witness ==
    /\ last_cmd = Cmd(B_LPUSH, <<KeyK, ValX, ValY>>)
    /\ last_reply = Error(MsgNotAnArray)
    /\ KeyK \in DOMAIN data
    /\ data[KeyK].value = ValX
    /\ is_expired(data[KeyK], now)

---------------------------------------------------------------------------
(* Claims about the router: handlers, channels and the engine thread *)

\* the responses a handler took up to the reply to its last command
UpToLastCommand(id) ==
    SubSeq(taken[id], 1, Min(Len(taken[id]), handlers[id].sent + 1))

\* C1: on every connection the first response taken is the registration
\* acknowledgement and the k-th one after it is the engine's reply to the k-th
\* command that connection submitted: none reordered, duplicated or skipped
\* (a handler that entered its read loop goes on past a command it submitted
\* with the reply taken, or with the error of a recv on a reply channel that
\* has no sender left).
C1_RepliesInOrder ==
    \A id \in 1..connection_id :
        /\ Len(taken[id]) >= 1 => taken[id][1] = ResponseOk
        /\ \A n \in 1..Len(applied[id]) : applied[id][n].nth = n
        /\ \A j \in 2..Len(UpToLastCommand(id)) :
              /\ j - 1 <= Len(applied[id])
              /\ taken[id][j] = applied[id][j - 1].res
        /\ (/\ \/ handlers[id].pc \in {"writing", "loop", "reading",
                                     "unregister", "wait_unregister"}
               \/ handlers[id].pc = "exit" /\ handlers[id].result # ""
            /\ handlers[id].result # "recv error")
              => Len(taken[id]) >= handlers[id].sent + 1

\* a connection took the replies to its SET k x and its GET k, and the second
\* is the value another connection stored between the two
C1_Witness ==
    \E id \in 1..connection_id :
        /\ handlers[id].sent = 2
        /\ Len(taken[id]) = 3
        /\ taken[id][2] = ResponseReturn(SimpleString(B_OK))
        /\ taken[id][3] = ResponseReturn(ValY)

\* the requests waiting on the channel are the latest ones sent, oldest first
QueueInOrder ==
    \A i \in 1..Len(rx_req) : rx_req[i].seq = n_sent - Len(rx_req) + i

\* the engine handles the oldest request: a command is applied by do_command
\* to the store as the requests before it left it, anything else leaves the
\* store alone
OldestHandled ==
    /\ rx_req' = Tail(rx_req)
    /\ IF Head(rx_req).kind = "Command"
       THEN /\ data' = do_command(data, Head(rx_req).object, now).data
            /\ applied' = [applied EXCEPT ![Head(rx_req).id] =
                  Append(@, [nth |-> Head(rx_req).nth,
                             res |-> ResponseReturn(
                                do_command(data, Head(rx_req).object, now).reply)])]
       ELSE data' = data /\ applied' = applied

\* the engine thread ends in do_command of the oldest request, a command
\* with an overflowing number: no reply is made and the store is as it was
OldestAborts ==
    /\ ~EngineUp'
    /\ Head(rx_req).kind = "Command"
    /\ do_command_overflows(Head(rx_req).object)
    /\ data' = data
    /\ applied' = applied

\* a step that takes a request off the channel, changes the store or makes a
\* reply is a step of the engine thread on the oldest request
OneCommandAtATime ==
    (\/ data' # data
     \/ Len(rx_req') < Len(rx_req)
     \/ \E id \in 1..Len(applied) : applied'[id] # applied[id]) =>
        /\ EngineUp
        /\ rx_req # <<>>
        /\ (EngineUp' /\ OldestHandled) \/ OldestAborts

\* C2: the engine applies commands strictly one at a time in the order they
\* arrive on the request channel, whatever connection sent them: each reply
\* is do_command's on the store the earlier commands produced, and the store
\* changes only in an engine step that applies a command.
C2_ChannelOrder ==
    []QueueInOrder /\ [][OneCommandAtATime]_vars

\* requests of two connections wait on the channel behind each other while
\* the store already holds what an earlier command wrote
C2_Witness ==
    /\ data # <<>>
    /\ Len(rx_req) >= 2
    /\ rx_req[1].kind = "Command" /\ rx_req[2].kind = "Command"
    /\ rx_req[1].id # rx_req[2].id

\* C13: for every Register and every Unregister request the engine handles it
\* sends one acknowledgement on that connection's reply sink.
C13_AckRegisterAndUnregister ==
    [][\A id \in 1..connection_id :
          (/\ rx_req # <<>>
           /\ rx_req' = Tail(rx_req)
           /\ Head(rx_req).id = id
           /\ Head(rx_req).kind \in {"Sender", "Done"})
          => rx_res'[id] = Append(rx_res[id], ResponseOk)]_vars

\* the places of connection id's Done requests on the request channel
DonesOf(id) ==
    {i \in 1..Len(rx_req) : rx_req[i].id = id /\ rx_req[i].kind = "Done"}

\* at most one Done request of a connection waits on the channel, it is the
\* last request of that connection, it was sent from the end of
\* handle_connection, and once it is gone the id is not in the map of senders
UnregisterLast ==
    \A id \in 1..connection_id :
        /\ Cardinality(DonesOf(id)) <= 1
        /\ \A i \in DonesOf(id) : \A j \in 1..Len(rx_req) : rx_req[j].id = id => j <= i
        /\ DonesOf(id) # {} => handlers[id].pc = "wait_unregister"
        /\ (handlers[id].pc \in {"wait_unregister", "exit"} /\ DonesOf(id) = {})
              => id \notin DOMAIN senders

\* a handler sends its Done request in the one step that leaves the read
\* loop's end behind, and sends nothing after it
UnregisterOnce ==
    \A id \in 1..connection_id :
        /\ (handlers[id].pc = "unregister" /\ handlers'[id].pc # "unregister")
              => /\ handlers'[id].pc = "wait_unregister"
                 /\ rx_req' = Append(rx_req, Request(id, "Done", NoObject, n_sent + 1, 0))
        /\ handlers[id].pc \in {"wait_unregister", "exit"}
              => /\ handlers'[id].pc \in {"wait_unregister", "exit"}
                 /\ \A j \in 1..Len(rx_req') :
                       rx_req'[j].id = id => \E i \in 1..Len(rx_req) : rx_req[i] = rx_req'[j]

\* C14: every handler that completed registration sends, when its stream has
\* ended (end of stream, a failed read, a decode or a write error), exactly
\* one Unregister request after its last Command request and then
\* terminates, the engine thread being fair; once the engine has handled the
\* Unregister the connection id is no longer in the engine's map of senders.
C14_UnregisterAndExit ==
    /\ []UnregisterLast
    /\ [][UnregisterOnce]_vars
    /\ \A id \in 1..MaxConnections :
          (id <= connection_id /\ handlers[id].pc = "loop")
             ~> (/\ id <= connection_id
                 /\ handlers[id].pc = "exit"
                 /\ id \notin DOMAIN senders)

\* the byte source of connection id is at end-of-stream exactly between two
\* objects: every byte read so far was consumed by a complete object, and
\* the read the handler waits in, the first for the next object, returns
\* zero bytes
AtCleanEnd(id) ==
    /\ handlers[id].pc = "reading"
    /\ handlers[id].reads = 0
    /\ handlers[id].sent >= 1
    /\ handlers[id].io.state.offset >= handlers[id].io.state.length
    /\ handlers[id].io.stream.chunks = <<>>
    /\ ~handlers[id].io.stream.fail

\* C15: when the byte source reaches end-of-stream exactly between two
\* objects the decoder reports a clean end-of-stream, not a decode error, and
\* the handler's read loop ends with success after the last reply was written.
C15_CleanEndOfStream ==
    [][\A id \in 1..connection_id :
          (AtCleanEnd(id) /\ handlers'[id] # handlers[id])
          => /\ handlers'[id].pc = "unregister"
             /\ handlers'[id].result = "Ok"
             /\ handlers'[id].out = handlers[id].out]_vars

\* C16: when decoding a command fails with a protocol error the handler
\* writes an error reply `-<message>\r\n` to the stream before it exits, and
\* submits no Command request for the bytes that failed to decode.
C16_ErrorReplyOnDecodeError ==
    [][\A id \in 1..connection_id :
          (/\ handlers[id].pc \in {"loop", "reading"}
           /\ ~AtCleanEnd(id)
           /\ ~handlers[id].writer.limited
           /\ handlers'[id].pc = "unregister"
           /\ handlers'[id].result \notin {"Ok", "io error", "send error"})
          => /\ rx_req' = rx_req
             /\ Len(handlers'[id].out) >= Len(handlers[id].out) + 3
             /\ SubSeq(handlers'[id].out, 1, Len(handlers[id].out)) = handlers[id].out
             /\ handlers'[id].out[Len(handlers[id].out) + 1] = Minus
             /\ SubSeq(handlers'[id].out, Len(handlers'[id].out) - 1,
                       Len(handlers'[id].out)) = CRLF]_vars

\* the requests of connection id that wait on the request channel
RequestsOf(id) ==
    {i \in 1..Len(rx_req) : rx_req[i].id = id}

\* connection id has at most one request that its handler has no response
\* for: one on the request channel, or one whose response is on its sink
AtMostOnePending(id) ==
    Cardinality(RequestsOf(id)) + Len(rx_res[id]) <= 1

OnePendingEach ==
    \A id \in 1..connection_id : AtMostOnePending(id)

\* the engine thread takes a request of connection id off the channel and
\* handles it: with a Done no Command of id is left behind it, and for a
\* Command the sink of id is registered and gets the reply do_command made
DequeueFindsSink(id) ==
    (/\ rx_req # <<>> /\ rx_req' = Tail(rx_req) /\ Head(rx_req).id = id /\ EngineUp')
    => /\ Head(rx_req).kind = "Done"
          => \A i \in 2..Len(rx_req) : rx_req[i].id # id
       /\ Head(rx_req).kind = "Command"
          => /\ id \in DOMAIN senders
             /\ Len(rx_res'[id]) = Len(rx_res[id]) + 1
             /\ rx_res'[id][Len(rx_res'[id])] = applied'[id][Len(applied'[id])].res

\* C21: at every moment a connection has at most one request submitted to
\* the engine and not yet answered; so when the engine dequeues its
\* Unregister no Command of it is still on the channel, and no reply
\* computed for a Command is dropped for lack of a registered sink.
C21_OnePendingRequest ==
    /\ []OnePendingEach
    /\ [][\A id \in 1..connection_id : DequeueFindsSink(id)]_vars

\* C21 witness: a connection's Unregister was dequeued after two of its
\* commands, the handler took a response for its Register and one for each
\* command, and another connection's command waits on the channel meanwhile.
C21_Witness ==
    /\ connection_id = 2
    /\ handlers[1].pc = "exit"
    /\ 1 \notin DOMAIN senders
    /\ Len(applied[1]) = 2
    /\ Len(taken[1]) = 3
    /\ \E i \in 1..Len(rx_req) : rx_req[i].id = 2 /\ rx_req[i].kind = "Command"

\* the sink registered under an id is the reply channel of that connection,
\* and a connection holds no more responses than it has sent requests
OwnSink ==
    /\ \A id \in DOMAIN senders : senders[id] = id
    /\ \A id \in 1..connection_id :
          Len(taken[id]) + Len(rx_res[id]) <= 1 + handlers[id].sent

\* a request enters the channel in a step of the handler whose id it carries
SentByOwner ==
    Len(rx_req') > Len(rx_req)
    => LET req == rx_req'[Len(rx_req')]
       IN /\ handlers'[req.id] # handlers[req.id]
          /\ \A j \in 1..connection_id : j # req.id => handlers'[j] = handlers[j]

\* a response enters the reply channel of connection j only in the engine
\* step for a request of j, and for a Command it is the reply to that command
RepliedToOwner ==
    \A j \in 1..connection_id :
       rx_res'[j] # rx_res[j] /\ Len(rx_res'[j]) >= Len(rx_res[j])
       => /\ rx_req # <<>> /\ rx_req' = Tail(rx_req)
          /\ Head(rx_req).id = j
          /\ rx_res'[j] = Append(rx_res[j], rx_res'[j][Len(rx_res'[j])])
          /\ Head(rx_req).kind = "Command"
                => rx_res'[j][Len(rx_res'[j])]
                      = ResponseReturn(do_command(data, Head(rx_req).object, now).reply)

\* a handler takes responses from its own reply channel only
TakenFromOwn ==
    \A j \in 1..connection_id :
       taken'[j] # taken[j]
       => /\ rx_res[j] # <<>>
          /\ taken'[j] = Append(taken[j], Head(rx_res[j]))
          /\ rx_res' = [rx_res EXCEPT ![j] = Tail(rx_res[j])]

\* an accepted connection gets the next id, which no request on the channel
\* and no registered sink carries
FreshId ==
    connection_id' # connection_id
    => /\ connection_id' = connection_id + 1
       /\ Len(handlers') = connection_id'
       /\ \A j \in 1..connection_id : handlers'[j] = handlers[j]
       /\ connection_id' \notin DOMAIN senders'
       /\ \A i \in 1..Len(rx_req') : rx_req'[i].id # connection_id'

\* C22: the reply computed for a command of connection c is sent only on the
\* reply channel c registered: under any interleaving no handler receives
\* the reply to another connection's command, and no id is assigned twice.
C22_RepliesToOwner ==
    /\ []OwnSink
    /\ [][SentByOwner /\ RepliedToOwner /\ TakenFromOwn /\ FreshId]_vars

\* C22 witness: two connections were served in turns, each has taken the
\* reply to its own first command, and the two replies differ.
C22_Witness ==
    /\ connection_id = 2
    /\ Len(taken[1]) >= 2 /\ Len(taken[2]) >= 2
    /\ taken[1][2].kind = "Return" /\ taken[2][2].kind = "Return"
    /\ taken[1][2] # taken[2][2]
    /\ taken[1][2] = applied[1][1].res
    /\ taken[2][2] = applied[2][1].res

===============================================================================
